---------------------------- MODULE Spec2Model ----------------------------
(***************************************************************************)
(* Encrypted storage engine and unlock flow of totp-manager.               *)
(*                                                                         *)
(* Go strings are sequences of bytes (0..255).  The vault file and its     *)
(* temporary sibling are modelled by their contents; AES-256-GCM and       *)
(* Argon2id are modelled symbolically (a ciphertext opens only under the   *)
(* key and nonce that sealed it, a key is determined by passphrase and     *)
(* salt).  Errors are chains of messages, outermost first, as fmt.Errorf   *)
(* with %w builds them.                                                    *)
(***************************************************************************)
EXTENDS Integers, Sequences, FiniteSets, TLC

(***************************************************************************)
(* Bounds of the model.                                                    *)
(***************************************************************************)
\* Most entries a vault holds in the model.
MaxServices == 2
\* Random salts and nonces are drawn from 1..MaxRandom.
MaxRandom == 1

\* How often the clock ticks at most.
MaxTicks == 1

\* How many nonces crypto/rand gives at most.
MaxDraws == 3

\* How many seconds pass at most while the TUI runs.
MaxSeconds == 32

\* How many bytes the search query holds at most.
MaxQuery == 2

(***************************************************************************)
(* Program constants.                                                      *)
(***************************************************************************)
saltLength == 16
keyLength == 32
nonceSize == 12
gcmTagSize == 16
maxNameLength == 50

\* One attempt more than the code allows.
FourAttempts == 3 + 1

\* maxPassphraseAttempts = 3
maxPassphraseAttempts == 3

currentVersion == 1
\* 0600 and 0700, the permission bits Save and Create ask for.
filePerm == 384
dirPerm == 448

(***************************************************************************)
(* Byte strings.                                                           *)
(***************************************************************************)
\* utf8.DecodeRuneInString at the head of s: the rune and its width.  An
\* invalid or truncated encoding decodes to RuneError (U+FFFD) of width 1.
RuneError == 65000 + 533

IsCont(b) == b >= 128 /\ b <= 191

DecodeRune(s) ==
    LET b0 == s[1]
        n == Len(s)
    IN  IF b0 < 128 THEN [r |-> b0, w |-> 1]
        ELSE IF b0 >= 194 /\ b0 <= 223 /\ n >= 2 /\ IsCont(s[2])
             THEN [r |-> (b0 - 192) * 64 + (s[2] - 128), w |-> 2]
        ELSE IF b0 >= 224 /\ b0 <= 239 /\ n >= 3 /\ IsCont(s[2]) /\ IsCont(s[3])
                /\ (b0 = 224 => s[2] >= 160) /\ (b0 = 237 => s[2] <= 159)
             THEN [r |-> (b0 - 224) * 4096 + (s[2] - 128) * 64 + (s[3] - 128),
                   w |-> 3]
        ELSE IF b0 >= 240 /\ b0 <= 244 /\ n >= 4
                /\ IsCont(s[2]) /\ IsCont(s[3]) /\ IsCont(s[4])
                /\ (b0 = 240 => s[2] >= 144) /\ (b0 = 244 => s[2] <= 143)
             THEN [r |-> (b0 - 240) * 262144 + (s[2] - 128) * 4096
                           + (s[3] - 128) * 64 + (s[4] - 128),
                   w |-> 4]
        ELSE [r |-> RuneError, w |-> 1]

\* A string of ASCII bytes only: each byte is its own rune.
IsASCII(s) == \A i \in 1..Len(s) : s[i] < 128

\* The runes a `for _, c := range s` loop visits.
RECURSIVE Runes(_)
Runes(s) ==
    IF IsASCII(s) THEN s
    ELSE LET d == DecodeRune(s)
         IN  <<d.r>> \o Runes(SubSeq(s, d.w + 1, Len(s)))

\* unicode.IsSpace on the bytes strings.TrimSpace strips (ASCII white space;
\* U+0085 and U+00A0 and the other Unicode spaces are outside the model's
\* alphabet).
IsSpace(b) == b \in {9, 10, 11, 12, 13, 32}

RECURSIVE TrimLeft(_)
TrimLeft(s) ==
    IF s # <<>> /\ IsSpace(s[1]) THEN TrimLeft(Tail(s)) ELSE s

RECURSIVE TrimRight(_)
TrimRight(s) ==
    IF s # <<>> /\ IsSpace(s[Len(s)])
    THEN TrimRight(SubSeq(s, 1, Len(s) - 1))
    ELSE s

TrimSpace(s) == TrimRight(TrimLeft(s))

\* Simple case folding of a rune (ASCII letters; other fold orbits are
\* outside the model's alphabet).
FoldRune(r) == IF r >= 65 /\ r <= 90 THEN r + 32 ELSE r

FoldRunes(s) ==
    LET rs == Runes(s)
    IN  [i \in 1..Len(rs) |-> FoldRune(rs[i])]

\* A comparison byte by byte, with no folding.
EqualBytes(s, t) == s = t

\* strings.EqualFold
EqualFold(s, t) == FoldRunes(s) = FoldRunes(t)

(***************************************************************************)
(* encoding/json as Save and Load use it.                                  *)
(***************************************************************************)
\* A JSON string value is coerced to valid UTF-8 when it is encoded: every
\* byte that does not start a valid encoding becomes U+FFFD (EF BF BD).
RECURSIVE CoerceUTF8(_)
CoerceUTF8(s) ==
    IF IsASCII(s) THEN s
    ELSE LET d == DecodeRune(s)
             head == IF d.r = RuneError /\ d.w = 1
                     THEN <<239, 191, 189>>
                     ELSE SubSeq(s, 1, d.w)
         IN  head \o CoerceUTF8(SubSeq(s, d.w + 1, Len(s)))

\* time.Time.MarshalJSON refuses a year outside [0, 9999].  The model's
\* instants are years.
TimeMarshals(t) == t >= 0 /\ t <= 9999

\* An optional JSON member (omitempty): the empty set when it is left out.
Opt(present, v) == IF present THEN {v} ELSE {}

\* The zero value when the member is absent.
OptGet(o, zero) == IF o = {} THEN zero ELSE CHOOSE v \in o : TRUE

\* Service, by its json tags.
MarshalService(s) ==
    [name       |-> CoerceUTF8(s.Name),
     identifier |-> Opt(s.Identifier # <<>>, CoerceUTF8(s.Identifier)),
     secret     |-> CoerceUTF8(s.Secret),
     created_at |-> s.CreatedAt,
     last_used  |-> Opt(s.LastUsed # <<>>, s.LastUsed[1])]

UnmarshalService(j) ==
    [Name       |-> j.name,
     Identifier |-> OptGet(j.identifier, <<>>),
     Secret     |-> j.secret,
     CreatedAt  |-> j.created_at,
     LastUsed   |-> IF j.last_used = {} THEN <<>>
                    ELSE <<CHOOSE v \in j.last_used : TRUE>>]

\* A plaintext that is no JSON document of a Storage.
NotJSON == [valid |-> FALSE, version |-> 0, services |-> <<>>]

\* json.Marshal(s.Storage): Salt and Nonce carry the tag "-".
MarshalStorage(st) ==
    IF \E i \in 1..Len(st.Services) :
          \/ ~TimeMarshals(st.Services[i].CreatedAt)
          \/ /\ st.Services[i].LastUsed # <<>>
             /\ ~TimeMarshals(st.Services[i].LastUsed[1])
    THEN [err |-> <<"json: error calling MarshalJSON for type time.Time">>,
          doc |-> NotJSON]
    ELSE [err |-> <<>>,
          doc |-> [valid    |-> TRUE,
                   version  |-> st.Version,
                   services |-> [i \in 1..Len(st.Services) |->
                                    MarshalService(st.Services[i])]]]

\* json.Unmarshal(plaintext, &storage)
UnmarshalStorage(doc) ==
    IF ~doc.valid
    THEN [err |-> <<"invalid character looking for beginning of value">>,
          Version |-> 0, Services |-> <<>>]
    ELSE [err |-> <<>>,
          Version  |-> doc.version,
          Services |-> [i \in 1..Len(doc.services) |->
                           UnmarshalService(doc.services[i])]]

\* A lower bound on the length of the JSON text: every string byte counted
\* once, escapes not expanded.
RECURSIVE ServicesLen(_)
ServicesLen(js) ==
    IF js = <<>> THEN 0
    ELSE Len(js[1].name) + Len(js[1].secret)
         + Len(OptGet(js[1].identifier, <<>>)) + 20 + ServicesLen(Tail(js))

JSONLen(doc) == IF doc.valid THEN 27 + ServicesLen(doc.services) ELSE 1

(***************************************************************************)
(* internal/crypto                                                         *)
(***************************************************************************)
\* crypto/rand: n random bytes, named by the draw r.
RandomBytes(r, n) == [id |-> r, len |-> n]

NoBytes == [id |-> 0, len |-> 0]

\* GenerateSalt
GenerateSalt(r) == RandomBytes(r, saltLength)

\* DeriveKey: Argon2id of passphrase and salt, symbolically.
NoKey == [pass |-> <<>>, salt |-> NoBytes, len |-> 0]

\* A DeriveKey that takes a salt of 16 bytes and no other.
DeriveKeyExactSalt(passphrase, salt) ==
    IF salt.len # saltLength
    THEN [err |-> <<"salt too short">>, key |-> NoKey]
    ELSE [err |-> <<>>,
          key |-> [pass |-> passphrase, salt |-> salt, len |-> keyLength]]

DeriveKey(passphrase, salt) ==
    IF salt.len < saltLength
    THEN [err |-> <<"salt too short">>, key |-> NoKey]
    ELSE [err |-> <<>>,
          key |-> [pass |-> passphrase, salt |-> salt, len |-> keyLength]]

\* A sealed message: gcm.Seal(nil, nonce, plaintext, nil).  whole is FALSE
\* for a ciphertext of which bytes are missing or altered.
Seal(key, nonce, plaintext) ==
    [key |-> key, nonce |-> nonce, pt |-> plaintext, whole |-> TRUE]

Garbage == [key |-> NoKey, nonce |-> NoBytes, pt |-> NotJSON, whole |-> FALSE]

\* A plaintext that is not a document of the vault: its bytes.
Text(bytes) == [text |-> bytes]

\* len(plaintext)
PlainLen(pt) == IF "text" \in DOMAIN pt THEN Len(pt.text) ELSE JSONLen(pt)

\* len(ciphertext): the plaintext and the tag.
CtLen(ct) == PlainLen(ct.pt) + gcmTagSize

\* An Encrypt that seals under one nonce and returns another.
EncryptOtherNonce(plaintext, key, r) ==
    IF key.len # keyLength
    THEN [err |-> <<"invalid key size">>, ciphertext |-> Garbage, nonce |-> NoBytes]
    ELSE [err |-> <<>>,
          ciphertext |-> Seal(key, RandomBytes(r, nonceSize), plaintext),
          nonce |-> RandomBytes(r + 1, nonceSize)]

\* An Encrypt that seals under the same nonce at every call.
EncryptFixedNonce(plaintext, key, r) ==
    IF key.len # keyLength
    THEN [err |-> <<"invalid key size">>, ciphertext |-> Garbage, nonce |-> NoBytes]
    ELSE [err |-> <<>>,
          ciphertext |-> Seal(key, RandomBytes(1, nonceSize), plaintext),
          nonce |-> RandomBytes(1, nonceSize)]

\* Encrypt(plaintext, key) with the nonce drawn as r.
Encrypt(plaintext, key, r) ==
    IF key.len # keyLength
    THEN [err |-> <<"invalid key size">>, ciphertext |-> Garbage, nonce |-> NoBytes]
    ELSE LET nonce == RandomBytes(r, nonceSize)
         IN  [err |-> <<>>,
              ciphertext |-> Seal(key, nonce, plaintext),
              nonce |-> nonce]

\* An open that does not authenticate the key.
GcmOpenNoKey(ciphertext, key, nonce) ==
    ciphertext.whole /\ ciphertext.nonce = nonce

\* An open that does not authenticate the nonce.
GcmOpenNoNonce(ciphertext, key, nonce) ==
    ciphertext.whole /\ ciphertext.key = key

\* gcm.Open(nil, nonce, ciphertext, nil): the tag verifies only for the
\* untouched ciphertext under the key and nonce that sealed it.
GcmOpen(ciphertext, key, nonce) ==
    ciphertext.whole /\ ciphertext.key = key /\ ciphertext.nonce = nonce

\* Decrypt(ciphertext, key, nonce)
Decrypt(ciphertext, key, nonce) ==
    IF key.len # keyLength
    THEN [err |-> <<"invalid key size">>, plaintext |-> NotJSON]
    ELSE IF nonce.len # nonceSize
    THEN [err |-> <<"invalid nonce size">>, plaintext |-> NotJSON]
    ELSE IF ~GcmOpen(ciphertext, key, nonce)
    THEN [err |-> <<"decryption failed (wrong key or tampered data)",
                    "cipher: message authentication failed">>,
          plaintext |-> NotJSON]
    ELSE [err |-> <<>>, plaintext |-> ciphertext.pt]

(***************************************************************************)
(* The vault file: [4 bytes version][16 bytes salt][12 bytes nonce]        *)
(* [ciphertext and tag].                                                   *)
(***************************************************************************)
headerSize == 4 + saltLength + nonceSize

\* binary.LittleEndian.PutUint32 and Uint32
PutUint32(v) ==
    <<v % 256, (v \div 256) % 256, (v \div 65536) % 256, (v \div 16777216) % 256>>

Uint32(b) == b[1] + b[2] * 256 + b[3] * 65536 + b[4] * 16777216

\* A file layout whose salt field is left zero.
FileDataZeroSalt(version, salt, nonce, ciphertext) ==
    [len   |-> headerSize + CtLen(ciphertext),
     ver   |-> PutUint32(version),
     salt  |-> [id |-> 0, len |-> saltLength],
     nonce |-> [id |-> nonce.id, len |-> nonceSize],
     ct    |-> ciphertext]

\* The bytes Save builds (fileData).
FileData(version, salt, nonce, ciphertext) ==
    [len   |-> headerSize + CtLen(ciphertext),
     ver   |-> PutUint32(version),
     salt  |-> [id |-> salt.id, len |-> saltLength],
     nonce |-> [id |-> nonce.id, len |-> nonceSize],
     ct    |-> ciphertext]

\* The first k bytes of data.  A ciphertext cut short is garbage: no key
\* opens it.
Prefix(data, k) ==
    IF k >= data.len THEN data
    ELSE [len   |-> k,
          ver   |-> SubSeq(data.ver, 1, IF k < 4 THEN k ELSE 4),
          salt  |-> IF k >= 4 + saltLength THEN data.salt ELSE NoBytes,
          nonce |-> IF k >= headerSize THEN data.nonce ELSE NoBytes,
          ct    |-> Garbage]

EmptyData ==
    [len |-> 0, ver |-> <<>>, salt |-> NoBytes, nonce |-> NoBytes, ct |-> Garbage]

\* A directory entry: a file with its permission bits and bytes, or none.
NoFile == [exists |-> FALSE, mode |-> 0, data |-> EmptyData]

\* A file created readable by everyone (0644), whatever mode is asked for.
FileWorldReadable(mode, data) == [exists |-> TRUE, mode |-> 420, data |-> data]

File(mode, data) == [exists |-> TRUE, mode |-> mode, data |-> data]

\* os.ReadFile succeeds on a file its owner may read.
Readable(f) == f.exists /\ f.mode >= 256

(***************************************************************************)
(* Store and Storage                                                       *)
(***************************************************************************)
NoStore == [nil |-> TRUE]

\* A load that checks the length of the header alone, without the tag.
LoadDataHeaderOnly(data, passphrase) ==
    IF data.len < headerSize
    THEN [err |-> <<"invalid storage file: too short">>, store |-> NoStore]
    ELSE IF Uint32(data.ver) # currentVersion
    THEN [err |-> <<"unsupported storage version", ToString(Uint32(data.ver))>>,
          store |-> NoStore]
    ELSE LET k == DeriveKey(passphrase, data.salt)
             d == Decrypt(data.ct, k.key, data.nonce)
         IN  IF d.err # <<>>
             THEN [err |-> <<"failed to decrypt storage (wrong passphrase?)">> \o d.err,
                   store |-> NoStore]
             ELSE [err |-> <<"failed to unmarshal storage">>, store |-> NoStore]

\* load(data, passphrase): what Load does with the bytes it read.
LoadData(data, passphrase) ==
    IF data.len < 4 + 16 + 12 + gcmTagSize
    THEN [err |-> <<"invalid storage file: too short">>, store |-> NoStore]
    ELSE IF Uint32(data.ver) # currentVersion
    THEN [err |-> <<"unsupported storage version", ToString(Uint32(data.ver))>>,
          store |-> NoStore]
    ELSE LET k == DeriveKey(passphrase, data.salt)
             d == Decrypt(data.ct, k.key, data.nonce)
             u == UnmarshalStorage(d.plaintext)
         IN  IF k.err # <<>>
             THEN [err |-> <<"failed to derive key">> \o k.err, store |-> NoStore]
             ELSE IF d.err # <<>>
             THEN [err |-> <<"failed to decrypt storage (wrong passphrase?)">> \o d.err,
                   store |-> NoStore]
             ELSE IF u.err # <<>>
             THEN [err |-> <<"failed to unmarshal storage">> \o u.err,
                   store |-> NoStore]
             ELSE [err |-> <<>>,
                   store |-> [passphrase |-> passphrase,
                              Version    |-> u.Version,
                              Services   |-> u.Services,
                              Salt       |-> data.salt,
                              Nonce      |-> data.nonce]]

\* Load(path, passphrase) with f at path.
Load(f, passphrase) ==
    IF ~Readable(f)
    THEN [err |-> <<"failed to read storage file",
                    IF f.exists THEN "permission denied"
                    ELSE "no such file or directory">>,
          store |-> NoStore]
    ELSE LoadData(f.data, passphrase)

\* The Store Create returns, its salt drawn as r.
NewStore(passphrase, r) ==
    [passphrase |-> passphrase,
     Version    |-> currentVersion,
     Services   |-> <<>>,
     Salt       |-> GenerateSalt(r),
     Nonce      |-> NoBytes]

\* totp.ValidateSecret: Base32 (A-Z, 2-7) decoding to at least 10 bytes.
IsBase32(b) == (b >= 65 /\ b <= 90) \/ (b >= 50 /\ b <= 55)

ValidateSecret(secret) ==
    IF \E i \in 1..Len(secret) : ~IsBase32(secret[i])
    THEN <<"invalid Base32 encoding">>
    ELSE IF (Len(secret) * 5) \div 8 < 10
    THEN <<"secret too short">>
    ELSE <<>>

\* ValidateServiceName
ValidateServiceName(name) ==
    LET trimmed == TrimSpace(name)
        rs == Runes(trimmed)
        bad == {i \in 1..Len(rs) :
                   rs[i] < 32 \/ rs[i] = 127 \/ rs[i] = 47 \/ rs[i] = 92}
        first == CHOOSE i \in bad : \A j \in bad : i <= j
    IN  IF trimmed = <<>> THEN <<"service name cannot be empty">>
        ELSE IF Len(trimmed) > maxNameLength THEN <<"service name too long">>
        ELSE IF bad = {} THEN <<>>
        ELSE IF rs[first] < 32 \/ rs[first] = 127
        THEN <<"service name contains control character">>
        ELSE <<"service name cannot contain path separators">>

\* Service.Validate
Validate(service) ==
    IF ValidateServiceName(service.Name) # <<>>
    THEN ValidateServiceName(service.Name)
    ELSE IF ValidateSecret(service.Secret) # <<>>
    THEN <<"invalid secret">> \o ValidateSecret(service.Secret)
    ELSE <<>>

\* An AddService that appends before it looks for a duplicate.
AddServiceAppendFirst(services, service) ==
    IF Validate(service) # <<>>
    THEN [err |-> Validate(service), Services |-> services]
    ELSE IF \E i \in 1..Len(services) : EqualFold(services[i].Name, service.Name)
    THEN [err |-> <<"service already exists">>, Services |-> Append(services, service)]
    ELSE [err |-> <<>>, Services |-> Append(services, service)]

\* Storage.AddService: the error and the entries afterwards.
AddServiceTo(services, service) ==
    IF Validate(service) # <<>>
    THEN [err |-> Validate(service), Services |-> services]
    ELSE IF \E i \in 1..Len(services) : EqualFold(services[i].Name, service.Name)
    THEN [err |-> <<"service already exists">>, Services |-> services]
    ELSE [err |-> <<>>, Services |-> Append(services, service)]

\* An UpdateLastUsed that clears a last_used already set.
UpdateLastUsedToggle(services, name, now) ==
    LET found == {i \in 1..Len(services) : EqualFold(services[i].Name, name)}
        first == CHOOSE i \in found : \A j \in found : i <= j
    IN  IF found = {}
        THEN [err |-> <<"service not found">>, Services |-> services]
        ELSE [err |-> <<>>,
              Services |-> [services EXCEPT ![first].LastUsed =
                               IF @ = <<>> THEN <<now>> ELSE <<>>]]

\* An UpdateLastUsed that stamps created_at too.
UpdateLastUsedTouchCreated(services, name, now) ==
    LET found == {i \in 1..Len(services) : EqualFold(services[i].Name, name)}
        first == CHOOSE i \in found : \A j \in found : i <= j
    IN  IF found = {}
        THEN [err |-> <<"service not found">>, Services |-> services]
        ELSE [err |-> <<>>,
              Services |-> [services EXCEPT ![first].LastUsed = <<now>>,
                                            ![first].CreatedAt = now]]

\* Storage.UpdateLastUsed: the error and the entries afterwards.  The first
\* entry whose name equals the given one under strings.EqualFold gets the
\* instant now.
UpdateLastUsedIn(services, name, now) ==
    LET found == {i \in 1..Len(services) : EqualFold(services[i].Name, name)}
        first == CHOOSE i \in found : \A j \in found : i <= j
    IN  IF found = {}
        THEN [err |-> <<"service not found">>, Services |-> services]
        ELSE [err |-> <<>>,
              Services |-> [services EXCEPT ![first].LastUsed = <<now>>]]

(***************************************************************************)
(* Inputs of the model.                                                    *)
(***************************************************************************)
\* "p", "q"
Passphrases == {<<112>>, <<113>>}

\* "JBSWY3DPEHPK3PXP"
GoodSecret == <<74, 66, 83, 87, 89, 51, 68, 80, 69, 72, 80, 75, 51, 80, 88, 80>>

Svc(name, identifier, secret, createdAt) ==
    [Name |-> name, Identifier |-> identifier, Secret |-> secret,
     CreatedAt |-> createdAt, LastUsed |-> <<>>]

\* "a"; "A" with identifier "x", created in the year 10000; "b" with an
\* identifier that is the one byte 0xFF; an empty name; the secret "ABC".
ServiceInputs ==
    {Svc(<<97>>, <<>>, GoodSecret, 2024),
     Svc(<<65>>, <<120>>, GoodSecret, 10000),
     Svc(<<98>>, <<255>>, GoodSecret, 2024),
     Svc(<<>>, <<>>, GoodSecret, 2024),
     Svc(<<100>>, <<>>, <<65, 66, 67>>, 2024)}

\* The names looked up: "a", "A", "b", "z".
LookupNames == {<<97>>, <<65>>, <<98>>, <<122>>}

\* A name of n times "a".
LongName(n) == [i \in 1..n |-> 97]

\* Entries with names of every kind: "a", "A", " b", "a" and a line feed,
\* U+00E9, 50 times "a", 51 times "a", 50 times "a" and a space, "a/b", the
\* byte 1, a tab alone, none.
NameInputs ==
    {Svc(name, <<>>, GoodSecret, 2024) :
        name \in {<<97>>, <<65>>, <<32, 98>>, <<97, 10>>, <<195, 169>>,
                  LongName(maxNameLength), LongName(maxNameLength + 1),
                  LongName(maxNameLength) \o <<32>>,
                  <<97, 47, 98>>, <<1>>, <<9>>, <<>>}}

\* Files that something other than Save left at the path: the 14 bytes
\* "corrupted data", and a long enough file of another format version.
CorruptedData == Prefix([EmptyData EXCEPT !.len = 14, !.ver = <<99, 111, 114, 114>>], 14)

OtherVersionData ==
    [len |-> 64, ver |-> PutUint32(2), salt |-> RandomBytes(1, saltLength),
     nonce |-> RandomBytes(1, nonceSize), ct |-> Garbage]

ForeignFiles == {File(filePerm, CorruptedData), File(filePerm, OtherVersionData)}

(***************************************************************************)
(* State                                                                   *)
(***************************************************************************)
VARIABLES
    dir,          \* the parent directory of the vault file exists
    fs,           \* the entries at Path and TmpPath
    store,        \* the process's Store, NoStore before Create or Load
    pc,           \* where Save stands: "idle", "open", "write", "rename"
    sv,           \* Save's locals: the operation, fileData, the nonce, and
                  \* the entry at Path when the call began
    ret,          \* the last return of the storage API: the call, its
                  \* error and, for Load, its passphrase
    clock         \* how often the clock has ticked

storageVars == <<dir, fs, store, pc, sv, ret, clock>>

\* time.Now(): the instant the clock shows.
Now == 2024 + clock

Path == "secrets.enc"

\* A Save that writes the vault file in place.
TmpPathInPlace == "secrets.enc"

\* tmpPath := s.path + ".tmp"
TmpPath == "secrets.enc.tmp"

Paths == {Path, TmpPath}

NoSave == [op |-> "", data |-> EmptyData, nonce |-> NoBytes, prev |-> NoFile,
           old |-> <<>>]

NoRet == [op |-> "", err |-> <<>>, arg |-> <<>>]

Return(op, err, arg) == [op |-> op, err |-> err, arg |-> arg]

VARIABLES
    cmd           \* AddCommand: the values of its flags, where it stands,
                  \* its exit code once it has returned, and the entry at
                  \* Path when it was called

NoCommand == [pc |-> "none", name |-> <<>>, identifier |-> <<>>, secret |-> <<>>,
              code |-> -1, before |-> NoFile]

VARIABLES
    cr,           \* package crypto called on its own: the arguments of the
                  \* last call and what it returned
    tui,          \* the Model of the TUI, NoModel before NewModel
    unix,         \* time.Now().Unix(): the wall clock in seconds
    procs,        \* two processes that call Save on the same path: where
                  \* each stands in Save, where the file it has open is
                  \* linked, the error Save returned
    rand          \* crypto/rand as Encrypt reads it: how many nonces it
                  \* has given, and the nonces that Saves have written

pkgVars == <<cr, tui, unix, procs, rand>>

NoDraws == [drawn |-> 0, written |-> {}]

NoCall == [op |-> "none"]

NoModel == [nil |-> TRUE]

Procs == {1, 2}

NoProcs == [p \in Procs |-> [pc |-> "idle", at |-> "", err |-> <<>>]]

InitPkgVars ==
    /\ cr = NoCall
    /\ tui = NoModel
    /\ unix = 0
    /\ procs = NoProcs
    /\ rand = NoDraws

InitStorage ==
    /\ \/ /\ dir = FALSE
          /\ fs = [p \in Paths |-> NoFile]
       \/ /\ dir = TRUE
          /\ \E f \in {NoFile} \cup ForeignFiles :
                fs = [p \in Paths |-> IF p = Path THEN f ELSE NoFile]
    /\ store = NoStore
    /\ pc = "idle"
    /\ sv = NoSave
    /\ ret = NoRet
    /\ clock = 0
    /\ cmd = NoCommand
    /\ InitPkgVars

(***************************************************************************)
(* internal/cli: unlocking an existing vault                               *)
(***************************************************************************)
VARIABLES
    app,          \* App.store: the Store bound to the App, NoStore before
    apc,          \* where loadExistingStorage stands: "prompt", "load", "done"
    attempt,      \* the loop variable
    passphrase,   \* the passphrase read for this attempt
    lastErr,      \* lastErr
    out,          \* the lines printed, to stdout and stderr, in order
    prompts,      \* how many times the passphrase was asked for
    loads,        \* how many times storage.Load was called
    aret          \* what loadExistingStorage returned, once it has

authVars == <<app, apc, attempt, passphrase, lastErr, out, prompts, loads, aret>>

\* What the user may type at a prompt: "p", "q", " p", "r".
TypedInputs == {<<112>>, <<113>>, <<32, 112>>, <<114>>}

\* A printed line: its format and the values put into it.
Line(text, args) == [text |-> text, args |-> args]

\* %d of a small number.
Digits(n) == <<48 + n>>

\* a.storagePath, as text: "/v"
StoragePath == <<47, 118>>

\* The vault files of the unlock flow: what Save writes for a Store of
\* Create with no entry or one, files something else left at the path, and
\* a vault its owner may not read.
SavedFile(st, r) ==
    LET k == DeriveKey(st.passphrase, st.Salt)
        e == Encrypt(MarshalStorage(st).doc, k.key, r)
    IN  File(filePerm, FileData(st.Version, st.Salt, e.nonce, e.ciphertext))

AuthFiles ==
    {SavedFile([NewStore(pw, 1) EXCEPT !.Services = ss], 1) :
        pw \in Passphrases,
        ss \in {<<>>, <<Svc(<<97>>, <<>>, GoodSecret, 2024)>>}}
    \cup ForeignFiles
    \cup {[SavedFile(NewStore(<<112>>, 1), 1) EXCEPT !.mode = 0]}

NotReturned == [done |-> FALSE, err |-> <<>>]

Returned(err) == [done |-> TRUE, err |-> err]

InitAuthVars ==
    /\ app = NoStore
    /\ apc = "prompt"
    /\ attempt = 1
    /\ passphrase = <<>>
    /\ lastErr = <<>>
    /\ out = <<>>
    /\ prompts = 0
    /\ loads = 0
    /\ aret = NotReturned

(***************************************************************************)
(* The storage API                                                         *)
(***************************************************************************)
\* A Create that leaves an empty file at the path, as os.Create would.
CreateTouchesFile ==
    /\ pc = "idle"
    /\ store = NoStore
    /\ \E pw \in Passphrases, r \in 1..MaxRandom :
          /\ dir' = TRUE
          /\ store' = NewStore(pw, r)
          /\ ret' = Return("Create", <<>>, <<>>)
    /\ fs' = [fs EXCEPT ![Path] = File(filePerm, EmptyData)]
    /\ UNCHANGED <<pc, sv>>
    /\ UNCHANGED <<authVars, clock, cmd, pkgVars>>

\* Create(path, passphrase)
Create ==
    /\ pc = "idle"
    /\ store = NoStore
    /\ \E pw \in Passphrases, r \in 1..MaxRandom :
          \/ /\ dir' = TRUE
             /\ store' = NewStore(pw, r)
             /\ ret' = Return("Create", <<>>, <<>>)
          \/ /\ ~dir
             /\ dir' = dir
             /\ store' = store
             /\ ret' = Return("Create", <<"failed to create directory", "permission denied">>,
                              <<>>)
    /\ UNCHANGED <<fs, pc, sv>>
    /\ UNCHANGED <<authVars, clock, cmd, pkgVars>>

\* Load(path, passphrase)
LoadCall ==
    /\ pc = "idle"
    /\ \E pw \in Passphrases :
          LET r == Load(fs[Path], pw)
          IN  /\ ret' = Return("Load", r.err, pw)
              /\ store' = IF r.err = <<>> THEN r.store ELSE store
    /\ UNCHANGED <<dir, fs, pc, sv>>
    /\ UNCHANGED <<authVars, clock, cmd, pkgVars>>

\* store.AddService(service), the service one of inputs.
AddServiceOf(inputs) ==
    /\ pc = "idle"
    /\ store # NoStore
    /\ \E service \in inputs :
          LET r == AddServiceTo(store.Services, service)
          IN  /\ r.err = <<>> => Len(store.Services) < MaxServices
              /\ store' = [store EXCEPT !.Services = r.Services]
              /\ ret' = Return("AddService", r.err, <<>>)
    /\ UNCHANGED <<dir, fs, pc, sv>>
    /\ UNCHANGED <<authVars, clock, cmd, pkgVars>>

\* store.AddService(service)
AddService == AddServiceOf(ServiceInputs)

\* store.AddService(service), with names of every kind.
AddServiceNamed == AddServiceOf(NameInputs)

\* store.UpdateLastUsed(name)
UpdateLastUsed ==
    /\ pc = "idle"
    /\ store # NoStore
    /\ \E name \in LookupNames :
          LET r == UpdateLastUsedIn(store.Services, name, Now)
          IN  /\ store' = [store EXCEPT !.Services = r.Services]
              /\ ret' = Return("UpdateLastUsed", r.err, name)
    /\ UNCHANGED <<dir, fs, pc, sv>>
    /\ UNCHANGED <<authVars, clock, cmd, pkgVars>>

\* Time passes.
Tick ==
    /\ clock < MaxTicks
    /\ clock' = clock + 1
    /\ UNCHANGED <<dir, fs, store, pc, sv, ret>>
    /\ UNCHANGED <<authVars, cmd, pkgVars>>

\* Save up to the write: DeriveKey, json.Marshal, Encrypt, fileData.  st is
\* the Store as the call finds it; r is the nonce drawn.
SaveBuild(op, st, old, r) ==
    LET k == DeriveKey(st.passphrase, st.Salt)
        m == MarshalStorage(st)
        e == Encrypt(m.doc, k.key, r)
        err == IF k.err # <<>> THEN <<"failed to derive key">> \o k.err
               ELSE IF m.err # <<>> THEN <<"failed to marshal storage">> \o m.err
               ELSE IF e.err # <<>> THEN <<"failed to encrypt storage">> \o e.err
               ELSE <<>>
    IN  /\ store' = st
        /\ IF err = <<>>
           THEN /\ pc' = "open"
                /\ ret' = NoRet
                /\ sv' = [op    |-> op,
                          data  |-> FileData(st.Version, st.Salt, e.nonce, e.ciphertext),
                          nonce |-> e.nonce,
                          prev  |-> fs[Path],
                          old   |-> old]
           ELSE /\ pc' = "idle"
                /\ ret' = Return(op, err, <<>>)
                /\ sv' = NoSave
        /\ UNCHANGED <<dir, fs>>
        /\ UNCHANGED <<authVars, clock>>

\* store.Save()
Save ==
    /\ pc = "idle"
    /\ store # NoStore
    /\ \E r \in 1..MaxRandom : SaveBuild("Save", store, store.passphrase, r)
    /\ UNCHANGED <<cmd, pkgVars>>

\* store.ChangePassphrase(newPassphrase): a new salt, the new passphrase,
\* then Save.
ChangePassphrase ==
    /\ pc = "idle"
    /\ store # NoStore
    /\ \E newPassphrase \in Passphrases, rs \in 1..MaxRandom, r \in 1..MaxRandom :
          SaveBuild("ChangePassphrase",
                    [store EXCEPT !.passphrase = newPassphrase,
                                  !.Salt = GenerateSalt(rs)],
                    store.passphrase, r)
    /\ UNCHANGED <<cmd, pkgVars>>

\* os.WriteFile(tmpPath, fileData, 0600), its OpenFile with
\* O_WRONLY|O_CREATE|O_TRUNC: the file is created with the mode asked for, or
\* an existing one is emptied and keeps its mode.
SaveOpenTmp ==
    /\ pc = "open"
    /\ \/ /\ dir
          /\ fs' = [fs EXCEPT ![TmpPath] =
                       File(IF fs[TmpPath].exists THEN fs[TmpPath].mode ELSE filePerm,
                            EmptyData)]
          /\ pc' = "write"
          /\ UNCHANGED <<ret, sv>>
       \/ /\ fs' = fs
          /\ pc' = "idle"
          /\ ret' = Return(sv.op, <<"failed to write temp file",
                                    IF dir THEN "permission denied"
                                    ELSE "no such file or directory">>,
                           <<>>)
          /\ sv' = NoSave
    /\ UNCHANGED <<dir, store>>
    /\ UNCHANGED <<authVars, clock, cmd, pkgVars>>

\* How much of the data a failed write may leave behind: nothing, or the
\* version field alone.
PartialLens(data) == {0, 4}

\* os.WriteFile, its Write and Close: all the bytes, or an error with only
\* some of them written.
SaveWriteTmp ==
    /\ pc = "write"
    /\ \/ /\ fs' = [fs EXCEPT ![TmpPath].data = sv.data]
          /\ pc' = "rename"
          /\ UNCHANGED <<ret, sv>>
       \/ /\ \E k \in PartialLens(sv.data) :
                fs' = [fs EXCEPT ![TmpPath].data = Prefix(sv.data, k)]
          /\ pc' = "idle"
          /\ ret' = Return(sv.op, <<"failed to write temp file", "no space left on device">>,
                           <<>>)
          /\ sv' = NoSave
    /\ UNCHANGED <<dir, store>>
    /\ UNCHANGED <<authVars, clock, cmd, pkgVars>>

\* os.Rename(tmpPath, s.path); on its failure os.Remove(tmpPath); on its
\* success s.Nonce = nonce.
SaveRenameStep ==
    /\ pc = "rename"
    /\ pc' = "idle"
    /\ sv' = NoSave
    /\ \/ /\ fs' = [fs EXCEPT ![Path] = fs[TmpPath], ![TmpPath] = NoFile]
          /\ store' = [store EXCEPT !.Nonce = sv.nonce]
          /\ ret' = Return(sv.op, <<>>, <<>>)
       \/ /\ fs' = [fs EXCEPT ![TmpPath] = NoFile]
          /\ store' = store
          /\ ret' = Return(sv.op, <<"failed to rename temp file", "permission denied">>,
                           <<>>)
    /\ UNCHANGED dir
    /\ UNCHANGED <<authVars, clock, cmd>>

SaveRename ==
    /\ SaveRenameStep
    /\ UNCHANGED pkgVars

(***************************************************************************)
(* App.loadExistingStorage                                                 *)
(***************************************************************************)
\* promptPassphrase(attempt) and readPassword: the line read, trimmed; or
\* the read fails.  inputs are the lines the user may type.
AuthPromptOf(inputs) ==
    /\ apc = "prompt"
    /\ attempt <= maxPassphraseAttempts
    /\ prompts' = prompts + 1
    /\ LET shown == (IF attempt = 1
                     THEN <<Line("Enter passphrase to unlock storage:", <<>>)>>
                     ELSE <<>>) \o <<Line("Passphrase: ", <<>>)>>
       IN  \/ /\ \E typed \in inputs : passphrase' = TrimSpace(typed)
              /\ out' = out \o shown
              /\ apc' = "load"
              /\ aret' = aret
           \/ /\ passphrase' = <<>>
              /\ out' = out \o shown
              /\ apc' = "done"
              /\ aret' = Returned(<<"passphrase input failed",
                                    "failed to read passphrase", "EOF">>)
    /\ UNCHANGED <<app, attempt, lastErr, loads>>
    /\ UNCHANGED <<dir, fs, store, pc, sv, ret, clock, cmd, pkgVars>>

\* The prompt of the unlock flow, with any of the lines of TypedInputs typed.
AuthPrompt == AuthPromptOf(TypedInputs)

\* The lines after the loop.
FailureLines ==
    <<Line("Failed to unlock storage after %d attempts",
           <<Digits(maxPassphraseAttempts)>>),
      Line("For security reasons, the application will now exit.", <<>>),
      Line("SECURITY: Failed authentication attempts for storage: %s",
           <<StoragePath>>)>>

\* A success that goes round the loop again instead of returning.
AuthLoadOkNoReturn(r) ==
    /\ app' = r.store
    /\ attempt' = attempt + 1
    /\ apc' = "prompt"
    /\ UNCHANGED <<aret, lastErr, out>>

\* Load succeeded: a.store = store; return nil.
AuthLoadOk(r) ==
    /\ app' = r.store
    /\ apc' = "done"
    /\ aret' = Returned(<<>>)
    /\ UNCHANGED <<attempt, lastErr, out>>

\* Load failed: lastErr = err, the line of the attempt if attempts remain,
\* the next turn of the loop; after the last one the lines after the loop
\* and the error returned, which wraps lastErr.
AuthLoadFailed(r) ==
    LET incorrect == IF attempt < maxPassphraseAttempts
                     THEN <<Line("Incorrect passphrase (attempt %d/%d)",
                                 <<Digits(attempt), Digits(maxPassphraseAttempts)>>)>>
                     ELSE <<>>
    IN  /\ lastErr' = r.err
        /\ attempt' = attempt + 1
        /\ app' = app
        /\ IF attempt + 1 <= maxPassphraseAttempts
           THEN /\ out' = out \o incorrect
                /\ apc' = "prompt"
                /\ aret' = aret
           ELSE /\ out' = out \o incorrect \o FailureLines
                /\ apc' = "done"
                /\ aret' = Returned(<<"authentication failed">> \o r.err)

\* storage.Load(a.storagePath, passphrase) and the rest of the loop body.
AuthLoad ==
    /\ apc = "load"
    /\ loads' = loads + 1
    /\ LET r == Load(fs[Path], passphrase)
       IN  IF r.err = <<>> THEN AuthLoadOk(r) ELSE AuthLoadFailed(r)
    /\ UNCHANGED <<passphrase, prompts>>
    /\ UNCHANGED <<dir, fs, store, pc, sv, ret, clock, cmd, pkgVars>>

AuthNext ==
    \/ AuthPrompt
    \/ AuthLoad

(***************************************************************************)
(* App.Initialize and App.createNewStorage                                 *)
(***************************************************************************)
\* What the user may type when asked for a new passphrase: "abcdefgh",
\* "abcdefg", four times U+00E9 (8 bytes), " abcdefgh".
NewTypedInputs ==
    {<<97, 98, 99, 100, 101, 102, 103, 104>>,
     <<97, 98, 99, 100, 101, 102, 103>>,
     <<195, 169, 195, 169, 195, 169, 195, 169>>,
     <<32, 97, 98, 99, 100, 101, 102, 103, 104>>}

\* A read that finds the end of the input instead of a line.
EndOfInput == <<-1>>

\* readPassword(): the line read with strings.TrimSpace applied, or the
\* error of the read.
readPassword(typed) ==
    IF typed = EndOfInput
    THEN [err |-> <<"EOF">>, text |-> <<>>]
    ELSE [err |-> <<>>, text |-> TrimSpace(typed)]

\* promptNewPassphrase(): the passphrase asked for, checked for its length,
\* asked for again and compared.  typed1 and typed2 are what the two reads
\* find.
promptNewPassphrase(typed1, typed2) ==
    LET r1 == readPassword(typed1)
        r2 == readPassword(typed2)
        ask == <<Line("Enter new passphrase: ", <<>>)>>
        confirm == <<Line("Confirm passphrase: ", <<>>)>>
    IN  IF r1.err # <<>>
        THEN [err |-> <<"failed to read passphrase">> \o r1.err,
              passphrase |-> <<>>, out |-> ask]
        ELSE IF Len(r1.text) < 8
        THEN [err |-> <<"passphrase must be at least 8 characters">>,
              passphrase |-> <<>>, out |-> ask]
        ELSE IF r2.err # <<>>
        THEN [err |-> <<"failed to read confirmation">> \o r2.err,
              passphrase |-> <<>>, out |-> ask \o confirm]
        ELSE IF r1.text # r2.text
        THEN [err |-> <<"passphrases do not match">>,
              passphrase |-> <<>>, out |-> ask \o confirm]
        ELSE [err |-> <<>>, passphrase |-> r1.text, out |-> ask \o confirm]

\* Initialize: os.Stat(a.storagePath); first-run setup if the path does not
\* exist, the unlock flow otherwise.
InitializeStat ==
    /\ apc = "init"
    /\ IF ~fs[Path].exists
       THEN /\ apc' = "newpass"
            /\ out' = out \o <<Line("Welcome to TOTP Manager!", <<>>),
                               Line("No storage found. Let's create a new one.", <<>>)>>
       ELSE /\ apc' = "prompt"
            /\ out' = out
    /\ UNCHANGED <<app, attempt, passphrase, lastErr, prompts, loads, aret>>
    /\ UNCHANGED <<dir, fs, store, pc, sv, ret, clock, cmd, pkgVars>>

\* createNewStorage: promptNewPassphrase and its error.
NewPassphrasePrompt ==
    /\ apc = "newpass"
    /\ \E typed1, typed2 \in NewTypedInputs \cup {EndOfInput} :
          LET r == promptNewPassphrase(typed1, typed2)
          IN  /\ out' = out \o r.out
              /\ prompts' = prompts + 1
              /\ IF r.err # <<>>
                 THEN /\ apc' = "done"
                      /\ aret' = Returned(<<"passphrase setup failed">> \o r.err)
                      /\ passphrase' = passphrase
                 ELSE /\ apc' = "create"
                      /\ aret' = aret
                      /\ passphrase' = r.passphrase
    /\ UNCHANGED <<app, attempt, lastErr, loads>>
    /\ UNCHANGED <<dir, fs, store, pc, sv, ret, clock, cmd, pkgVars>>

\* createNewStorage: storage.Create(a.storagePath, passphrase) and its error.
NewStorageCreate ==
    /\ apc = "create"
    /\ \E r \in 1..MaxRandom :
          \/ /\ dir' = TRUE
             /\ store' = NewStore(passphrase, r)
             /\ ret' = Return("Create", <<>>, <<>>)
             /\ apc' = "save"
             /\ aret' = aret
          \/ /\ ~dir
             /\ dir' = dir
             /\ store' = store
             /\ ret' = Return("Create", <<"failed to create directory", "permission denied">>,
                              <<>>)
             /\ apc' = "done"
             /\ aret' = Returned(<<"failed to create storage",
                                   "failed to create directory", "permission denied">>)
    /\ UNCHANGED <<app, attempt, passphrase, lastErr, out, prompts, loads>>
    /\ UNCHANGED <<fs, pc, sv, clock, cmd, pkgVars>>

\* createNewStorage: the call of store.Save(), which then runs by its steps.
NewStorageSave ==
    /\ apc = "save"
    /\ pc = "idle"
    /\ ret.op = "Create"
    /\ \E r \in 1..MaxRandom : SaveBuild("Save", store, store.passphrase, r)
    /\ UNCHANGED <<cmd, pkgVars>>

\* A createNewStorage that binds the Store before it looks at the error of
\* Save.
NewStorageBindFirst ==
    /\ apc = "save"
    /\ pc = "idle"
    /\ ret.op = "Save"
    /\ apc' = "done"
    /\ app' = store
    /\ IF ret.err # <<>>
       THEN /\ aret' = Returned(<<"failed to save storage">> \o ret.err)
            /\ out' = out
       ELSE /\ aret' = Returned(<<>>)
            /\ out' = out \o <<Line("Storage created successfully", <<>>),
                               Line("Storage location: %s", <<StoragePath>>),
                               Line("File permissions: 0600 (owner read/write only)", <<>>)>>
    /\ UNCHANGED <<attempt, passphrase, lastErr, prompts, loads>>
    /\ UNCHANGED <<dir, fs, store, pc, sv, ret, clock, cmd, pkgVars>>

\* createNewStorage, once Save has returned: its error, or a.store = store
\* and the lines of the success.
NewStorageBind ==
    /\ apc = "save"
    /\ pc = "idle"
    /\ ret.op = "Save"
    /\ apc' = "done"
    /\ IF ret.err # <<>>
       THEN /\ aret' = Returned(<<"failed to save storage">> \o ret.err)
            /\ app' = app
            /\ out' = out
       ELSE /\ aret' = Returned(<<>>)
            /\ app' = store
            /\ out' = out \o <<Line("Storage created successfully", <<>>),
                               Line("Storage location: %s", <<StoragePath>>),
                               Line("File permissions: 0600 (owner read/write only)", <<>>)>>
    /\ UNCHANGED <<attempt, passphrase, lastErr, prompts, loads>>
    /\ UNCHANGED <<dir, fs, store, pc, sv, ret, clock, cmd, pkgVars>>

InitializeNext ==
    \/ InitializeStat
    \/ NewPassphrasePrompt
    \/ NewStorageCreate
    \/ NewStorageSave
    \/ NewStorageBind
    \/ SaveOpenTmp
    \/ SaveWriteTmp
    \/ SaveRename
    \/ AuthPrompt
    \/ AuthLoad

(***************************************************************************)
(* AddCommand                                                              *)
(***************************************************************************)
\* Storage.GetService: the index of the first entry whose name equals the
\* given one under strings.EqualFold, or an error.
GetService(services, name) ==
    LET found == {i \in 1..Len(services) : EqualFold(services[i].Name, name)}
    IN  IF found = {}
        THEN [err |-> <<"service not found">>, i |-> 0]
        ELSE [err |-> <<>>, i |-> CHOOSE i \in found : \A j \in found : i <= j]

\* The values of --name: "a", "A", the one byte 0xFF, "a/b", none.
AddNames == {<<97>>, <<65>>, <<255>>, <<97, 47, 98>>, <<>>}

\* The values of --secret: "JBSWY3DPEHPK3PXP", none, "ABC".
AddSecrets == {GoodSecret, <<>>, <<65, 66, 67>>}

\* AddCommand returns code after printing lines.
AddCommandReturn(code, lines) ==
    /\ cmd' = [cmd EXCEPT !.pc = "done", !.code = code]
    /\ out' = out \o lines

\* An AddCommand that calls NewApp and Initialize before it looks at its
\* flags.
AddCommandParseLate ==
    /\ cmd.pc = "start"
    /\ cmd' = [cmd EXCEPT !.pc = "init"]
    /\ apc' = "init"
    /\ out' = out
    /\ UNCHANGED <<app, attempt, passphrase, lastErr, prompts, loads, aret>>
    /\ UNCHANGED <<dir, fs, store, pc, sv, ret, clock, pkgVars>>

\* AddCommand up to app.Initialize(): the required flags, ValidateSecret,
\* NewApp, which fails when no home directory is known.  The text of an
\* error printed with %v is not kept.
AddCommandParse ==
    /\ cmd.pc = "start"
    /\ IF cmd.name = <<>>
       THEN /\ AddCommandReturn(1,
                   <<Line("Error: --name is required", <<>>),
                     Line("Usage: totp add --name SERVICE_NAME --secret BASE32_SECRET",
                          <<>>)>>)
            /\ apc' = apc
       ELSE IF cmd.secret = <<>>
       THEN /\ AddCommandReturn(1,
                   <<Line("Error: --secret is required", <<>>),
                     Line("Usage: totp add --name SERVICE_NAME --secret BASE32_SECRET",
                          <<>>)>>)
            /\ apc' = apc
       ELSE IF ValidateSecret(cmd.secret) # <<>>
       THEN /\ AddCommandReturn(1,
                   <<Line("Error: Invalid TOTP secret: %v", <<>>),
                     Line("Secret must be valid Base32 (A-Z, 2-7) and at least 16 characters",
                          <<>>)>>)
            /\ apc' = apc
       ELSE \/ /\ AddCommandReturn(1, <<Line("Error: %v", <<>>)>>)
               /\ apc' = apc
            \/ /\ cmd' = [cmd EXCEPT !.pc = "init"]
               /\ apc' = "init"
               /\ out' = out
    /\ UNCHANGED <<app, attempt, passphrase, lastErr, prompts, loads, aret>>
    /\ UNCHANGED <<dir, fs, store, pc, sv, ret, clock, pkgVars>>

\* AddCommand once Initialize has returned: its error, GetService and the
\* duplicate, the Service built, AddService and its error.
AddCommandAdd ==
    /\ cmd.pc = "init"
    /\ apc = "done"
    /\ aret.done
    /\ IF aret.err # <<>>
       THEN /\ AddCommandReturn(1, <<Line("Error: %v", <<>>)>>)
            /\ app' = app
       ELSE IF GetService(app.Services, cmd.name).err = <<>>
       THEN /\ AddCommandReturn(1,
                   <<Line("Error: Service '%s' already exists", <<cmd.name>>),
                     Line("Use a different name or remove the existing service first",
                          <<>>)>>)
            /\ app' = app
       ELSE LET service == Svc(cmd.name, cmd.identifier, cmd.secret, Now)
                r == AddServiceTo(app.Services, service)
            IN  IF r.err # <<>>
                THEN /\ AddCommandReturn(1, <<Line("Error adding service: %v", <<>>)>>)
                     /\ app' = app
                ELSE /\ cmd' = [cmd EXCEPT !.pc = "save"]
                     /\ app' = [app EXCEPT !.Services = r.Services]
                     /\ out' = out
    /\ UNCHANGED <<apc, attempt, passphrase, lastErr, prompts, loads, aret>>
    /\ UNCHANGED <<dir, fs, store, pc, sv, ret, clock, pkgVars>>

\* AddCommand: the call of app.store.Save(), which then runs by its steps.
AddCommandSave ==
    /\ cmd.pc = "save"
    /\ pc = "idle"
    /\ cmd' = [cmd EXCEPT !.pc = "saving"]
    /\ \E r \in 1..MaxRandom : SaveBuild("Save", app, app.passphrase, r)
    /\ UNCHANGED pkgVars

\* AddCommand once Save has returned: its error and 1, or the lines of the
\* success and 0.  app.store is the Store that Save worked on.  The mark
\* U+2713 that begins the lines of the success is left out.
AddCommandExit ==
    /\ cmd.pc = "saving"
    /\ pc = "idle"
    /\ app' = store
    /\ IF ret.err # <<>>
       THEN AddCommandReturn(1, <<Line("Error saving storage: %v", <<>>)>>)
       ELSE AddCommandReturn(0,
               <<Line("Service '%s' added successfully", <<cmd.name>>),
                 Line("Storage updated and encrypted", <<>>)>>)
    /\ UNCHANGED <<apc, attempt, passphrase, lastErr, prompts, loads, aret>>
    /\ UNCHANGED <<dir, fs, store, pc, sv, ret, clock, pkgVars>>

AddCommandNext ==
    \/ AddCommandParse
    \/ AddCommandAdd
    \/ AddCommandSave
    \/ AddCommandExit
    \/ InitializeNext

(***************************************************************************)
(* ChangePassphraseCommand                                                 *)
(***************************************************************************)
\* What the user may type when asked for the new passphrase of the vault:
\* "abcdefgh", " abcdefgh", "x", nothing.
ChangeTypedInputs ==
    {<<97, 98, 99, 100, 101, 102, 103, 104>>,
     <<32, 97, 98, 99, 100, 101, 102, 103, 104>>,
     <<120>>,
     <<>>}

\* term.ReadPassword: the line read as it was typed, or the error of the
\* read.
ReadPassword(typed) ==
    IF typed = EndOfInput
    THEN [err |-> <<"EOF">>, text |-> <<>>]
    ELSE [err |-> <<>>, text |-> typed]

\* The function promptNewPassphrase() of the change-passphrase command: the
\* passphrase read, refused if empty, read again and compared.
promptNewPassphraseChange(typed1, typed2) ==
    LET r1 == ReadPassword(typed1)
        r2 == ReadPassword(typed2)
        ask == <<Line("Enter new passphrase: ", <<>>)>>
        confirm == <<Line("Confirm new passphrase: ", <<>>)>>
    IN  IF r1.err # <<>>
        THEN [err |-> <<"failed to read new passphrase">> \o r1.err,
              passphrase |-> <<>>, out |-> ask]
        ELSE IF Len(r1.text) = 0
        THEN [err |-> <<"passphrase cannot be empty">>,
              passphrase |-> <<>>, out |-> ask]
        ELSE IF r2.err # <<>>
        THEN [err |-> <<"failed to read confirmation">> \o r2.err,
              passphrase |-> <<>>, out |-> ask \o confirm]
        ELSE IF r1.text # r2.text
        THEN [err |-> <<"passphrases do not match">>,
              passphrase |-> <<>>, out |-> ask \o confirm]
        ELSE [err |-> <<>>, passphrase |-> r1.text, out |-> ask \o confirm]

ChangeCommandReturn(code, lines) ==
    /\ cmd' = [cmd EXCEPT !.pc = "done", !.code = code]
    /\ out' = out \o lines

\* ChangePassphraseCommand up to app.Initialize(): NewApp, which fails when
\* no home directory is known, and the first line.
ChangeCommandStart ==
    /\ cmd.pc = "start"
    /\ \/ /\ ChangeCommandReturn(1, <<Line("Error: %v", <<>>)>>)
          /\ apc' = apc
       \/ /\ cmd' = [cmd EXCEPT !.pc = "init"]
          /\ apc' = "init"
          /\ out' = out \o <<Line("Changing storage passphrase...", <<>>)>>
    /\ UNCHANGED <<app, attempt, passphrase, lastErr, prompts, loads, aret>>
    /\ UNCHANGED <<dir, fs, store, pc, sv, ret, clock, pkgVars>>

\* ChangePassphraseCommand once Initialize has returned: its error,
\* promptNewPassphrase() and its error.  cmd.typed is the new passphrase.
ChangeCommandPrompt ==
    /\ cmd.pc = "init"
    /\ apc = "done"
    /\ aret.done
    /\ IF aret.err # <<>>
       THEN ChangeCommandReturn(1, <<Line("Error: %v", <<>>)>>)
       ELSE \E typed1, typed2 \in ChangeTypedInputs \cup {EndOfInput} :
               LET r == promptNewPassphraseChange(typed1, typed2)
               IN  IF r.err # <<>>
                   THEN ChangeCommandReturn(1, r.out \o <<Line("Error: %v", <<>>)>>)
                   ELSE /\ cmd' = [cmd EXCEPT !.pc = "change", !.typed = r.passphrase]
                        /\ out' = out \o r.out
    /\ UNCHANGED <<app, apc, attempt, passphrase, lastErr, prompts, loads, aret>>
    /\ UNCHANGED <<dir, fs, store, pc, sv, ret, clock, pkgVars>>

\* ChangePassphraseCommand: the call of app.store.ChangePassphrase, whose
\* Save then runs by its steps.
ChangeCommandChange ==
    /\ cmd.pc = "change"
    /\ pc = "idle"
    /\ cmd' = [cmd EXCEPT !.pc = "saving"]
    /\ \E rs \in 1..MaxRandom, r \in 1..MaxRandom :
          SaveBuild("ChangePassphrase",
                    [app EXCEPT !.passphrase = cmd.typed,
                                !.Salt = GenerateSalt(rs)],
                    app.passphrase, r)
    /\ UNCHANGED pkgVars

\* ChangePassphraseCommand once ChangePassphrase has returned: its error and
\* 1, or the lines of the success and 0.  app.store is the Store that
\* ChangePassphrase worked on.  The mark U+2713 that begins the first line
\* of the success is left out.
ChangeCommandExit ==
    /\ cmd.pc = "saving"
    /\ pc = "idle"
    /\ app' = store
    /\ IF ret.err # <<>>
       THEN ChangeCommandReturn(1, <<Line("Error changing passphrase: %v", <<>>)>>)
       ELSE ChangeCommandReturn(0,
               <<Line("Passphrase changed successfully!", <<>>),
                 Line("  The storage file has been re-encrypted with the new passphrase.",
                      <<>>)>>)
    /\ UNCHANGED <<apc, attempt, passphrase, lastErr, prompts, loads, aret>>
    /\ UNCHANGED <<dir, fs, store, pc, sv, ret, clock, pkgVars>>

\* The program is run again after a change that succeeded: a new App, and
\* Initialize on the file the change left.
LaterRun ==
    /\ cmd.pc = "done"
    /\ cmd.code = 0
    /\ cmd' = [cmd EXCEPT !.pc = "again"]
    /\ app' = NoStore
    /\ apc' = "init"
    /\ attempt' = 1
    /\ passphrase' = <<>>
    /\ lastErr' = <<>>
    /\ out' = <<>>
    /\ prompts' = 0
    /\ loads' = 0
    /\ aret' = NotReturned
    /\ store' = NoStore
    /\ ret' = NoRet
    /\ UNCHANGED <<dir, fs, pc, sv, clock, pkgVars>>

\* The prompt of the unlock flow: in the later run the user types the
\* passphrase typed at the change, before it any line of TypedInputs.
ChangeAuthPrompt ==
    AuthPromptOf(IF cmd.pc = "again" THEN {cmd.typed} ELSE TypedInputs)

ChangeCommandNext ==
    \/ ChangeCommandStart
    \/ ChangeCommandPrompt
    \/ ChangeCommandChange
    \/ ChangeCommandExit
    \/ LaterRun
    \/ InitializeStat
    \/ NewPassphrasePrompt
    \/ NewStorageCreate
    \/ NewStorageSave
    \/ NewStorageBind
    \/ SaveOpenTmp
    \/ SaveWriteTmp
    \/ SaveRename
    \/ ChangeAuthPrompt
    \/ AuthLoad

(***************************************************************************)
(* Package crypto, called on its own                                       *)
(***************************************************************************)
\* The plaintexts: none, "hi", a vault document with no entries.
PlainTexts ==
    {Text(<<>>), Text(<<104, 105>>), MarshalStorage(NewStore(<<112>>, 1)).doc}

\* The salts: random bytes of 0, 15, 16, 17 and 32 bytes.
Salts == {RandomBytes(1, n) : n \in {0, 15, 16, 17, 32}}

\* The keys: those Argon2id derives from "p", "q" and the empty passphrase,
\* and the first of them cut to 0, 16 and 31 bytes and extended to 33.
Keys ==
    {DeriveKey(pw, GenerateSalt(1)).key : pw \in Passphrases \cup {<<>>}}
    \cup {[DeriveKey(<<112>>, GenerateSalt(1)).key EXCEPT !.len = n] :
             n \in {0, 16, 31, 33}}

\* The nonces: random bytes of 12 bytes, and of 0, 11 and 13.
Nonces ==
    {RandomBytes(r, nonceSize) : r \in 1..MaxRandom + 1}
    \cup {RandomBytes(1, n) : n \in {0, 11, 13}}

\* What may reach Decrypt in place of a ciphertext: the ciphertext itself,
\* or its bytes with one of them altered or the last one missing.
Received(ciphertext) == {ciphertext, [ciphertext EXCEPT !.whole = FALSE]}

\* Encrypt(plaintext, key)
CryptoEncrypt ==
    /\ \E plaintext \in PlainTexts, key \in Keys, r \in 1..MaxRandom :
          cr' = [op |-> "Encrypt", plaintext |-> plaintext, key |-> key,
                 res |-> Encrypt(plaintext, key, r)]
    /\ UNCHANGED <<storageVars, authVars, cmd, tui, unix, procs, rand>>

\* Decrypt(ciphertext, key, nonce), after an Encrypt that returned a
\* ciphertext.
CryptoDecrypt ==
    /\ cr.op = "Encrypt"
    /\ cr.res.err = <<>>
    /\ \E ciphertext \in Received(cr.res.ciphertext), key \in Keys, nonce \in Nonces :
          cr' = [op |-> "Decrypt", sealed |-> cr,
                 ciphertext |-> ciphertext, key |-> key, nonce |-> nonce,
                 res |-> Decrypt(ciphertext, key, nonce)]
    /\ UNCHANGED <<storageVars, authVars, cmd, tui, unix, procs, rand>>

\* DeriveKey(passphrase, salt)
CryptoDeriveKey ==
    /\ \E pw \in Passphrases \cup {<<>>}, salt \in Salts :
          cr' = [op |-> "DeriveKey", passphrase |-> pw, salt |-> salt,
                 res |-> DeriveKey(pw, salt)]
    /\ UNCHANGED <<storageVars, authVars, cmd, tui, unix, procs, rand>>

CryptoNext ==
    \/ CryptoEncrypt
    \/ CryptoDecrypt
    \/ CryptoDeriveKey

(***************************************************************************)
(* Package totp and the TUI                                                *)
(***************************************************************************)
\* Go's a % b for b > 0: the remainder has the sign of a.
GoRem(a, b) == IF a >= 0 THEN a % b ELSE 0 - ((0 - a) % b)

\* fmt.Sprintf("%d", n) for n >= 0: the decimal digits, none in front.
RECURSIVE Decimal(_)
Decimal(n) == IF n < 10 THEN <<48 + n>> ELSE Append(Decimal(n \div 10), 48 + (n % 10))

\* The code as text: six digits, zeros in front.
CodeText(n) ==
    LET d == Decimal(n) IN [i \in 1..(6 - Len(d)) |-> 48] \o d

RECURSIVE SumBytes(_)
SumBytes(b) == IF b = <<>> THEN 0 ELSE b[1] + SumBytes(Tail(b))

\* HMAC-SHA1 of the counter under the secret after dynamic truncation: a
\* number below 2^31 that depends on both, symbolically.
Truncated(secret, counter) ==
    (SumBytes(secret) * 100003 + (counter % 4096) * 65537) % 1073741824

\* totp.GenerateCode(secret, t): the counter is floor(unix time / 30).
GenerateCode(secret, t) ==
    IF ValidateSecret(secret) # <<>>
    THEN [err |-> <<"invalid secret">> \o ValidateSecret(secret), code |-> <<>>]
    ELSE [err |-> <<>>,
          code |-> CodeText(Truncated(secret, t \div 30) % 1000000)]

\* calculateRemainingSeconds() at the instant now.
calculateRemainingSeconds(now) == 30 - GoRem(now, 30)

\* "ERROR"
ErrorCode == <<69, 82, 82, 79, 82>>

\* A loop that ends at the first entry whose code cannot be generated.
CodesAtStopOnError(services, codes, now) ==
    LET bad == {i \in 1..Len(services) :
                   GenerateCode(services[i].Secret, now).err # <<>>}
        done == {i \in 1..Len(services) : \A j \in bad : i <= j}
    IN  [n \in DOMAIN codes \cup {services[i].Name : i \in done} |->
            IF \E i \in done : services[i].Name = n
            THEN LET i == CHOOSE i \in done : services[i].Name = n
                     g == GenerateCode(services[i].Secret, now)
                 IN  IF g.err # <<>> THEN ErrorCode ELSE g.code
            ELSE codes[n]]

\* The loop of generateAllCodes: totpCodes[service.Name] is the code of the
\* last entry of that name, "ERROR" when GenerateCode returns an error.
CodesAt(services, codes, now) ==
    LET names == {services[i].Name : i \in 1..Len(services)}
        last(n) == CHOOSE i \in 1..Len(services) :
                      /\ services[i].Name = n
                      /\ \A j \in 1..Len(services) : services[j].Name = n => j <= i
        gen(i) == GenerateCode(services[i].Secret, now)
    IN  [n \in DOMAIN codes \cup names |->
            IF n \in names
            THEN IF gen(last(n)).err # <<>> THEN ErrorCode ELSE gen(last(n)).code
            ELSE codes[n]]

\* m.generateAllCodes()
generateAllCodes(m, now) ==
    [m EXCEPT !.totpCodes = CodesAt(m.services, m.totpCodes, now),
              !.remainingTime = calculateRemainingSeconds(now)]

\* "HXDMVJECJJWSRB3HWIZR4IFUGFTMXBOZ"
OtherSecret ==
    <<72, 88, 68, 77, 86, 74, 69, 67, 74, 74, 87, 83, 82, 66, 51, 72,
      87, 73, 90, 82, 52, 73, 70, 85, 71, 70, 84, 77, 88, 66, 79, 90>>

\* "INVALID!!!"
BadSecret == <<73, 78, 86, 65, 76, 73, 68, 33, 33, 33>>

\* The entries of the Store given to NewModel: none; "a"; "a" with a secret
\* that is not Base32, then "b"; "a", "b" with the secret "ABC", "z".
TuiServices ==
    {<<>>,
     <<Svc(<<97>>, <<>>, GoodSecret, 2024)>>,
     <<Svc(<<97>>, <<>>, BadSecret, 2024), Svc(<<98>>, <<>>, OtherSecret, 2024)>>,
     <<Svc(<<97>>, <<>>, GoodSecret, 2024), Svc(<<98>>, <<>>, <<65, 66, 67>>, 2024),
       Svc(<<122>>, <<>>, OtherSecret, 2024)>>}

\* The instants at which the TUI is started: in 1969, at the epoch, in 2023.
StartTimes == {-31, 0, 1700000000}

\* The terminal sizes reported.
WindowSizes == {<<80, 24>>}

\* No status line.
NoStatus == Line("", <<>>)

\* The Model NewModel returns for a Store with these entries, at the instant
\* now.  services is store.Services itself, not a copy; the indices count
\* from 0 as in the code; viewportOffset is the zero value.
ModelOf(services, now) ==
    [services        |-> services,
     filteredIndices |-> [i \in 1..Len(services) |-> i - 1],
     cursor          |-> 0,
     totpCodes       |-> <<>>,
     remainingTime   |-> calculateRemainingSeconds(now),
     copyStatus      |-> NoStatus,
     copyStatusTime  |-> <<>>,
     width           |-> 0,
     height          |-> 0,
     searchMode      |-> FALSE,
     searchQuery     |-> <<>>,
     viewportOffset  |-> 0,
     last            |-> "NewModel"]

\* NewModel(store)
NewModel ==
    /\ tui = NoModel
    /\ \E services \in TuiServices : tui' = ModelOf(services, unix)
    /\ UNCHANGED <<storageVars, authVars, cmd, cr, unix, procs, rand>>

\* Model.Init(): generateAllCodes on the copy Init receives.  The map of
\* the codes is shared with the Model; the counter of the copy is lost.
ModelInit ==
    /\ tui # NoModel
    /\ tui.last = "NewModel"
    /\ tui' = [tui EXCEPT !.totpCodes = generateAllCodes(tui, unix).totpCodes,
                          !.last = "Init"]
    /\ UNCHANGED <<storageVars, authVars, cmd, cr, unix, procs, rand>>

\* Update(tickMsg)
UpdateTick ==
    /\ tui # NoModel
    /\ tui.last # "NewModel"
    /\ LET m == [tui EXCEPT !.remainingTime = @ - 1, !.last = "tickMsg"]
           g == IF m.remainingTime <= 0
                THEN generateAllCodes([m EXCEPT !.remainingTime = 30], unix)
                ELSE m
       IN  tui' = IF g.copyStatusTime # <<>> /\ unix - g.copyStatusTime[1] > 2
                  THEN [g EXCEPT !.copyStatus = NoStatus, !.copyStatusTime = <<>>]
                  ELSE g
    /\ UNCHANGED <<storageVars, authVars, cmd, cr, unix, procs, rand>>

\* Update(refreshMsg)
UpdateRefresh ==
    /\ tui # NoModel
    /\ tui.last # "NewModel"
    /\ tui' = generateAllCodes([tui EXCEPT !.last = "refreshMsg"], unix)
    /\ UNCHANGED <<storageVars, authVars, cmd, cr, unix, procs, rand>>

\* Update(tea.WindowSizeMsg)
UpdateWindowSize ==
    /\ tui # NoModel
    /\ tui.last # "NewModel"
    /\ \E size \in WindowSizes :
          tui' = [tui EXCEPT !.width = size[1], !.height = size[2],
                             !.last = "WindowSizeMsg"]
    /\ UNCHANGED <<storageVars, authVars, cmd, cr, unix, procs, rand>>

\* A second passes.
SecondPasses ==
    /\ \E start \in StartTimes : unix >= start /\ unix < start + MaxSeconds
    /\ unix' = unix + 1
    /\ UNCHANGED <<storageVars, authVars, cmd, cr, tui, procs, rand>>

(***************************************************************************)
(* The TUI: handleKeyPress                                                 *)
(***************************************************************************)
\* strings.ToLower of ASCII text.
ToLower(text) ==
    [i \in 1..Len(text) |-> IF text[i] >= 65 /\ text[i] <= 90 THEN text[i] + 32
                            ELSE text[i]]

\* The loop of fuzzyMatch: queryIdx once the first i bytes of text are passed.
RECURSIVE queryIdx(_, _, _)
queryIdx(text, query, i) ==
    IF i = 0 THEN 0
    ELSE LET q == queryIdx(text, query, i - 1)
         IN  IF q < Len(query) /\ text[i] = query[q + 1] THEN q + 1 ELSE q

\* fuzzyMatch(text, query)
fuzzyMatch(text, query) == queryIdx(text, query, Len(text)) = Len(query)

\* The numbers of S, smallest first.
RECURSIVE Ascending(_)
Ascending(S) ==
    IF S = {} THEN <<>>
    ELSE LET x == CHOOSE x \in S : \A y \in S : x <= y
         IN  <<x>> \o Ascending(S \ {x})

\* A filter that leaves the cursor where it is.
filterServicesKeepCursor(m) ==
    IF m.searchQuery = <<>>
    THEN [m EXCEPT !.filteredIndices = [i \in 1..Len(m.services) |-> i - 1]]
    ELSE LET query == ToLower(m.searchQuery)
             searchText(i) == ToLower(m.services[i + 1].Name \o <<32>>
                                          \o m.services[i + 1].Identifier)
         IN  [m EXCEPT !.filteredIndices =
                          Ascending({i \in 0..(Len(m.services) - 1) :
                                        fuzzyMatch(searchText(i), query)})]

\* m.filterServices()
filterServices(m) ==
    IF m.searchQuery = <<>>
    THEN [m EXCEPT !.filteredIndices = [i \in 1..Len(m.services) |-> i - 1],
                   !.cursor = 0]
    ELSE LET query == ToLower(m.searchQuery)
             searchText(i) == ToLower(m.services[i + 1].Name \o <<32>>
                                          \o m.services[i + 1].Identifier)
             filtered == Ascending({i \in 0..(Len(m.services) - 1) :
                                       fuzzyMatch(searchText(i), query)})
         IN  [m EXCEPT !.filteredIndices = filtered,
                       !.cursor = IF @ >= Len(filtered) THEN 0 ELSE @]

\* Go's a / b for b > 0: the quotient is rounded towards zero.
GoQuo(a, b) == IF a >= 0 THEN a \div b ELSE 0 - ((0 - a) \div b)

\* maxVisibleItems := (m.height - 9) / 3, and 1 if that is less.
maxVisibleItems(m) ==
    IF GoQuo(m.height - 9, 3) < 1 THEN 1 ELSE GoQuo(m.height - 9, 3)

\* case tea.KeyUp, and case "up", "k"
CursorUp(m) ==
    IF m.cursor > 0
    THEN [m EXCEPT !.cursor = m.cursor - 1,
                   !.viewportOffset = IF m.cursor - 1 < @ THEN m.cursor - 1 ELSE @]
    ELSE m

\* case tea.KeyDown, and case "down", "j"
CursorDown(m) ==
    IF m.cursor < Len(m.filteredIndices) - 1
    THEN [m EXCEPT !.cursor = m.cursor + 1,
                   !.viewportOffset = IF m.cursor + 1 >= @ + maxVisibleItems(m)
                                      THEN m.cursor + 1 - maxVisibleItems(m) + 1
                                      ELSE @]
    ELSE m

\* case "home", "g"
CursorHome(m) == [m EXCEPT !.cursor = 0, !.viewportOffset = 0]

\* case "end", "G"
CursorEnd(m) ==
    IF Len(m.filteredIndices) > 0
    THEN LET c == Len(m.filteredIndices) - 1
         IN  [m EXCEPT !.cursor = c,
                       !.viewportOffset = IF c >= maxVisibleItems(m)
                                          THEN c - maxVisibleItems(m) + 1
                                          ELSE @]
    ELSE m

\* The keys pressed: tea.KeyMsg values by their Type, and the runes typed
\* one at a time: k, G, q and the slash.
KeyTypes ==
    {"KeyEsc", "KeyBackspace", "KeyCtrlC", "KeyCtrlU", "KeyUp", "KeyDown",
     "KeySpace", "KeyEnter", "KeyHome", "KeyEnd", "KeyTab"}

TypedRunes == {107, 71, 113, 47}

KeyMsgs ==
    {[Type |-> t, Runes |-> <<>>] : t \in KeyTypes}
    \cup {[Type |-> "KeyRunes", Runes |-> <<r>>] : r \in TypedRunes}

\* msg.String() is the name of the key type, or the rune typed.
Pressed(msg, type, rune) ==
    \/ msg.Type = type
    \/ msg.Type = "KeyRunes" /\ msg.Runes = <<rune>>

\* case tea.KeySpace, tea.KeyEnter, and case " ", "enter"
IsCopyKey(msg) == msg.Type \in {"KeySpace", "KeyEnter"}

\* m.totpCodes[name], "" when the map has no such key.
CodeOf(m, name) == IF name \in DOMAIN m.totpCodes THEN m.totpCodes[name] ELSE <<>>

\* The entry at the cursor itself, the filter not followed.
SelectedServiceByCursor(m) == m.services[m.cursor + 1]

\* serviceIdx := m.filteredIndices[m.cursor]; service := m.services[serviceIdx]
SelectedService(m) == m.services[m.filteredIndices[m.cursor + 1] + 1]

\* The conditions around the copy: an entry is selected and has a code.
CopyApplies(m) ==
    /\ Len(m.filteredIndices) > 0
    /\ m.cursor < Len(m.filteredIndices)
    /\ CodeOf(m, SelectedService(m).Name) # <<>>

\* The normal mode for the keys other than the copy; quit is whether
\* tea.Quit is returned.
normalKey(m, msg) ==
    CASE Pressed(msg, "", 47) ->
            [m |-> [m EXCEPT !.searchMode = TRUE, !.searchQuery = <<>>],
             quit |-> FALSE]
      [] msg.Type = "KeyCtrlU" ->
            [m |-> filterServices([m EXCEPT !.searchQuery = <<>>]), quit |-> FALSE]
      [] Pressed(msg, "KeyEsc", 113) \/ msg.Type = "KeyCtrlC" ->
            [m |-> m, quit |-> TRUE]
      [] Pressed(msg, "KeyUp", 107) -> [m |-> CursorUp(m), quit |-> FALSE]
      [] Pressed(msg, "KeyDown", 106) -> [m |-> CursorDown(m), quit |-> FALSE]
      [] Pressed(msg, "KeyHome", 103) -> [m |-> CursorHome(m), quit |-> FALSE]
      [] Pressed(msg, "KeyEnd", 71) -> [m |-> CursorEnd(m), quit |-> FALSE]
      [] OTHER -> [m |-> m, quit |-> FALSE]

\* A search mode in which the keys do what they do in normal mode.
searchKeyAsNormal(m, msg) == normalKey(m, msg)

\* The search mode for the keys other than the copy.
searchKey(m, msg) ==
    CASE msg.Type = "KeyEsc" ->
            [m |-> [m EXCEPT !.searchMode = FALSE], quit |-> FALSE]
      [] msg.Type = "KeyBackspace" ->
            [m |-> IF Len(m.searchQuery) > 0
                   THEN filterServices([m EXCEPT !.searchQuery =
                                           SubSeq(@, 1, Len(@) - 1)])
                   ELSE m,
             quit |-> FALSE]
      [] msg.Type = "KeyCtrlC" -> [m |-> m, quit |-> TRUE]
      [] msg.Type = "KeyCtrlU" ->
            [m |-> filterServices([m EXCEPT !.searchQuery = <<>>]), quit |-> FALSE]
      [] msg.Type = "KeyUp" -> [m |-> CursorUp(m), quit |-> FALSE]
      [] msg.Type = "KeyDown" -> [m |-> CursorDown(m), quit |-> FALSE]
      [] msg.Type = "KeyRunes" ->
            [m |-> filterServices([m EXCEPT !.searchQuery = @ \o msg.Runes]),
             quit |-> FALSE]
      [] OTHER -> [m |-> m, quit |-> FALSE]

\* What handleKeyPress returns for a key that copies nothing.  last tells
\* a key that returned tea.Quit and a space or enter from the other keys.
handleKeyPress(m, msg) ==
    LET r == IF m.searchMode THEN searchKey(m, msg) ELSE normalKey(m, msg)
    IN  [r.m EXCEPT !.last = IF r.quit THEN "tea.Quit"
                             ELSE IF IsCopyKey(msg) THEN "KeySpace, KeyEnter"
                             ELSE "KeyMsg"]

\* store.Save() from its call to its return: the Store and the files it
\* leaves and the error it returns, one for each way its steps can go.
SaveOutcomes(st, files, r) ==
    LET k == DeriveKey(st.passphrase, st.Salt)
        m == MarshalStorage(st)
        e == Encrypt(m.doc, k.key, r)
        err == IF k.err # <<>> THEN <<"failed to derive key">> \o k.err
               ELSE IF m.err # <<>> THEN <<"failed to marshal storage">> \o m.err
               ELSE IF e.err # <<>> THEN <<"failed to encrypt storage">> \o e.err
               ELSE <<>>
        data == FileData(st.Version, st.Salt, e.nonce, e.ciphertext)
        opened == [files EXCEPT ![TmpPath] =
                      File(IF files[TmpPath].exists THEN files[TmpPath].mode
                           ELSE filePerm, EmptyData)]
        written == [opened EXCEPT ![TmpPath].data = data]
        Out(s2, f2, err2) == [store |-> s2, fs |-> f2, err |-> err2]
    IN  IF err # <<>> THEN {Out(st, files, err)}
        ELSE {Out(st, files, <<"failed to write temp file", "permission denied">>)}
             \cup {Out(st, [opened EXCEPT ![TmpPath].data = Prefix(data, n)],
                       <<"failed to write temp file", "no space left on device">>) :
                      n \in PartialLens(data)}
             \cup {Out([st EXCEPT !.Nonce = e.nonce],
                       [written EXCEPT ![Path] = written[TmpPath], ![TmpPath] = NoFile],
                       <<>>),
                   Out(st, [written EXCEPT ![TmpPath] = NoFile],
                       <<"failed to rename temp file", "permission denied">>)}

\* The Model has been given to the program, which has called Init, and the
\* Store is in no call.
KeysReady ==
    /\ tui # NoModel
    /\ tui.last # "NewModel"
    /\ pc = "idle"

\* Update(tea.KeyMsg) in search mode, for the keys other than the copy and
\* for the copy with no entry selected.
UpdateKeySearch ==
    /\ KeysReady
    /\ tui.searchMode
    /\ \E msg \in KeyMsgs :
          /\ IsCopyKey(msg) => ~CopyApplies(tui)
          /\ msg.Type = "KeyRunes" => Len(tui.searchQuery) < MaxQuery
          /\ tui' = handleKeyPress(tui, msg)
    /\ UNCHANGED <<storageVars, authVars, cmd, cr, unix, procs, rand>>

\* Update(tea.KeyMsg) in normal mode, likewise.
UpdateKeyNormal ==
    /\ KeysReady
    /\ ~tui.searchMode
    /\ \E msg \in KeyMsgs :
          /\ IsCopyKey(msg) => ~CopyApplies(tui)
          /\ tui' = handleKeyPress(tui, msg)
    /\ UNCHANGED <<storageVars, authVars, cmd, cr, unix, procs, rand>>

\* Update(tea.KeyMsg) for space and enter, in either mode, on an entry that
\* has a code: clipboard.Copy, which may fail; the status; then
\* m.store.UpdateLastUsed(service.Name) and m.store.Save(), its error
\* dropped, so that nothing of what Save returned is kept.  m.services
\* shares its array with the Store's entries.
UpdateKeyCopy ==
    /\ KeysReady
    /\ store # NoStore
    /\ CopyApplies(tui)
    /\ \E copied \in BOOLEAN, r \in 1..MaxRandom :
          LET service == SelectedService(tui)
              code == CodeOf(tui, service.Name)
              used == UpdateLastUsedIn(store.Services, service.Name, Now)
          IN  \E o \in SaveOutcomes([store EXCEPT !.Services = used.Services], fs, r) :
                 /\ store' = o.store
                 /\ fs' = o.fs
                 /\ tui' = [tui EXCEPT
                               !.copyStatus =
                                   IF copied THEN Line("Copied to clipboard", <<>>)
                                   ELSE Line("Clipboard unavailable. Code: ", <<code>>),
                               !.copyStatusTime = <<unix>>,
                               !.services = o.store.Services,
                               !.last = "KeySpace, KeyEnter"]
    /\ UNCHANGED <<dir, pc, sv, ret, clock>>
    /\ UNCHANGED <<authVars, cmd, cr, unix, procs, rand>>

KeysNext ==
    \/ ModelInit
    \/ UpdateTick
    \/ UpdateRefresh
    \/ UpdateWindowSize
    \/ UpdateKeySearch
    \/ UpdateKeyNormal
    \/ UpdateKeyCopy

TuiNext ==
    \/ NewModel
    \/ ModelInit
    \/ UpdateTick
    \/ UpdateRefresh
    \/ UpdateWindowSize
    \/ SecondPasses

(***************************************************************************)
(* Two processes, each with a Store bound to the same path                 *)
(***************************************************************************)
\* The Store of process p: both opened one vault, the second added an entry.
ProcStore(p) ==
    IF p = 1 THEN NewStore(<<112>>, 1)
    ELSE [NewStore(<<112>>, 1) EXCEPT
             !.Services = <<Svc(<<97>>, <<>>, GoodSecret, 2024)>>]

\* fileData of the Save of process p, its nonce drawn as p.
ProcData(p) == SavedFile(ProcStore(p), p).data

\* The vault file the processes found.
PreviousData == SavedFile(NewStore(<<112>>, 1), 3).data

\* A write of new at offset 0 of a file that holds old: the bytes of new,
\* then what old has beyond them.  Bytes of two ciphertexts in a row are
\* garbage.
Overlay(old, new) ==
    IF new.len >= old.len THEN new
    ELSE [len   |-> old.len,
          ver   |-> IF new.len >= 4 THEN new.ver ELSE old.ver,
          salt  |-> IF new.len >= 4 + saltLength THEN new.salt ELSE old.salt,
          nonce |-> IF new.len >= headerSize THEN new.nonce ELSE old.nonce,
          ct    |-> Garbage]

\* Save of process p, called whenever p is in no Save, up to the write:
\* fileData is built.
ProcSave(p) ==
    /\ procs[p].pc = "idle"
    /\ procs' = [procs EXCEPT ![p].pc = "open"]
    /\ UNCHANGED <<storageVars, authVars, cmd, cr, tui, unix, rand>>

\* os.WriteFile(tmpPath, fileData, 0600) of process p, its OpenFile with
\* O_WRONLY|O_CREATE|O_TRUNC: the file at tmpPath is created, or the one
\* that is there is emptied, whoever has it open.
ProcOpenTmp(p) ==
    /\ procs[p].pc = "open"
    /\ fs' = [fs EXCEPT ![TmpPath] =
                 File(IF fs[TmpPath].exists THEN fs[TmpPath].mode ELSE filePerm,
                      EmptyData)]
    /\ procs' = [procs EXCEPT ![p].pc = "write", ![p].at = TmpPath]
    /\ UNCHANGED <<dir, store, pc, sv, ret, clock>>
    /\ UNCHANGED <<authVars, cmd, cr, tui, unix, rand>>

\* os.WriteFile of process p, its Write and Close: the bytes go to the file
\* that was opened, wherever it is linked now.
ProcWriteTmp(p) ==
    /\ procs[p].pc = "write"
    /\ fs' = IF procs[p].at \in Paths
             THEN [fs EXCEPT ![procs[p].at].data = Overlay(@, ProcData(p))]
             ELSE fs
    /\ procs' = [procs EXCEPT ![p].pc = "rename", ![p].at = ""]
    /\ UNCHANGED <<dir, store, pc, sv, ret, clock>>
    /\ UNCHANGED <<authVars, cmd, cr, tui, unix, rand>>

\* os.Rename(tmpPath, s.path) of process p: the file at tmpPath is linked at
\* the path, and the one that was there is unlinked; with no file at tmpPath
\* it fails, and os.Remove(tmpPath) finds nothing.
ProcRename(p) ==
    /\ procs[p].pc = "rename"
    /\ IF fs[TmpPath].exists
       THEN /\ fs' = [fs EXCEPT ![Path] = fs[TmpPath], ![TmpPath] = NoFile]
            /\ procs' = [q \in Procs |->
                            IF q = p THEN [procs[q] EXCEPT !.pc = "idle", !.err = <<>>]
                            ELSE [procs[q] EXCEPT !.at =
                                     IF @ = TmpPath THEN Path
                                     ELSE IF @ = Path THEN "unlinked" ELSE @]]
       ELSE /\ fs' = fs
            /\ procs' = [procs EXCEPT ![p].pc = "idle",
                                      ![p].err = <<"failed to rename temp file",
                                                   "no such file or directory">>]
    /\ UNCHANGED <<dir, store, pc, sv, ret, clock>>
    /\ UNCHANGED <<authVars, cmd, cr, tui, unix, rand>>

ProcsNext ==
    \E p \in Procs :
        \/ ProcSave(p)
        \/ ProcOpenTmp(p)
        \/ ProcWriteTmp(p)
        \/ ProcRename(p)

(***************************************************************************)
(* What GetService hands out                                               *)
(***************************************************************************)
\* store.GetService(name): the error, or &s.Services[i], a pointer to the
\* entry in the Store's own slice, kept as its index.
GetServiceCall ==
    /\ pc = "idle"
    /\ store # NoStore
    /\ \E name \in LookupNames :
          LET r == GetService(store.Services, name)
          IN  ret' = Return("GetService", r.err, r.i)
    /\ UNCHANGED <<dir, fs, store, pc, sv>>
    /\ UNCHANGED <<authVars, clock, cmd, pkgVars>>

\* The caller assigns to the Name of the *Service it was given: to nothing,
\* or to "b".  The pointer is into s.Services, so the Store's entry is the
\* one assigned to.
PointerWrite ==
    /\ pc = "idle"
    /\ ret.op = "GetService"
    /\ ret.err = <<>>
    /\ \E name \in {<<>>, <<98>>} :
          store' = [store EXCEPT !.Services[ret.arg].Name = name]
    /\ UNCHANGED <<dir, fs, pc, sv, ret>>
    /\ UNCHANGED <<authVars, clock, cmd, pkgVars>>

\* store.AddService(service) of the entries "a" and "b".
AliasAddService ==
    AddServiceOf({Svc(<<97>>, <<>>, GoodSecret, 2024), Svc(<<98>>, <<>>, GoodSecret, 2024)})

AliasNext ==
    \/ AliasAddService
    \/ UpdateLastUsed
    \/ GetServiceCall
    \/ PointerWrite
    \/ Tick

(***************************************************************************)
(* Save with crypto/rand followed                                          *)
(***************************************************************************)
\* rand.Read(nonce): 12 bytes that crypto/rand has not given before and
\* that no file holds.
FreshNonce == MaxRandom + rand.drawn + 1

\* rand after SaveBuild: Encrypt has read a nonce if the key was derived and
\* the Storage marshalled.
Drawn == IF pc' = "open" THEN [rand EXCEPT !.drawn = @ + 1] ELSE rand

\* store.Save(), up to the write.
NonceSave ==
    /\ pc = "idle"
    /\ store # NoStore
    /\ rand.drawn < MaxDraws
    /\ SaveBuild("Save", store, store.passphrase, FreshNonce)
    /\ rand' = Drawn
    /\ UNCHANGED <<cmd, cr, tui, unix, procs>>

\* store.ChangePassphrase(newPassphrase), up to the write: the salt is read
\* from crypto/rand as well, 16 bytes it has not given before.
NonceChangePassphrase ==
    /\ pc = "idle"
    /\ store # NoStore
    /\ rand.drawn < MaxDraws
    /\ \E newPassphrase \in Passphrases :
          SaveBuild("ChangePassphrase",
                    [store EXCEPT !.passphrase = newPassphrase,
                                  !.Salt = GenerateSalt(FreshNonce)],
                    store.passphrase, FreshNonce)
    /\ rand' = Drawn
    /\ UNCHANGED <<cmd, cr, tui, unix, procs>>

\* The end of Save, the nonce of a successful one noted.
NonceSaveRename ==
    /\ SaveRenameStep
    /\ rand' = [rand EXCEPT !.written =
                    IF ret'.err = <<>> THEN @ \cup {sv.nonce} ELSE @]
    /\ UNCHANGED <<cr, tui, unix, procs>>

\* store.AddService(service) of the entry "a".
NonceAddService == AddServiceOf({Svc(<<97>>, <<>>, GoodSecret, 2024)})

NonceNext ==
    \/ Create
    \/ LoadCall
    \/ NonceAddService
    \/ UpdateLastUsed
    \/ NonceSave
    \/ NonceChangePassphrase
    \/ SaveOpenTmp
    \/ SaveWriteTmp
    \/ NonceSaveRename

StorageNext ==
    \/ Create
    \/ LoadCall
    \/ AddService
    \/ Save
    \/ ChangePassphrase
    \/ SaveOpenTmp
    \/ SaveWriteTmp
    \/ SaveRename

vars == <<dir, fs, store, pc, sv, ret, clock,
          app, apc, attempt, passphrase, lastErr, out, prompts, loads, aret, cmd, pkgVars>>

\* The storage API, called in any order by one process.
Init == InitStorage /\ InitAuthVars

Next == StorageNext

Spec == Init /\ [][Next]_vars

\* The unlock flow on a vault file that exists.
InitAuth ==
    /\ dir = TRUE
    /\ \E f \in AuthFiles : fs = [p \in Paths |-> IF p = Path THEN f ELSE NoFile]
    /\ store = NoStore
    /\ pc = "idle"
    /\ sv = NoSave
    /\ ret = NoRet
    /\ clock = 0
    /\ cmd = NoCommand
    /\ InitPkgVars
    /\ InitAuthVars

SpecAuth == InitAuth /\ [][AuthNext]_vars

\* App.Initialize, on a path with no file or with one.
InitInitialize ==
    /\ \/ /\ dir = FALSE
          /\ fs = [p \in Paths |-> NoFile]
       \/ /\ dir = TRUE
          /\ \E f \in {NoFile} \cup AuthFiles :
                fs = [p \in Paths |-> IF p = Path THEN f ELSE NoFile]
    /\ store = NoStore
    /\ pc = "idle"
    /\ sv = NoSave
    /\ ret = NoRet
    /\ clock = 0
    /\ cmd = NoCommand
    /\ InitPkgVars
    /\ app = NoStore
    /\ apc = "init"
    /\ attempt = 1
    /\ passphrase = <<>>
    /\ lastErr = <<>>
    /\ out = <<>>
    /\ prompts = 0
    /\ loads = 0
    /\ aret = NotReturned

SpecInitialize == InitInitialize /\ [][InitializeNext]_vars

\* The storage API and the clock.
VaultNext ==
    \/ StorageNext
    \/ UpdateLastUsed
    \/ Tick

SpecVault == Init /\ [][VaultNext]_vars

\* The entries of a Store that Create has returned: AddService and
\* UpdateLastUsed, called in any order, and the clock.
InitEntries ==
    /\ dir = TRUE
    /\ fs = [p \in Paths |-> NoFile]
    /\ \E pw \in Passphrases : store = NewStore(pw, 1)
    /\ pc = "idle"
    /\ sv = NoSave
    /\ ret = Return("Create", <<>>, <<>>)
    /\ clock = 0
    /\ cmd = NoCommand
    /\ InitPkgVars
    /\ InitAuthVars

EntriesNext ==
    \/ AddServiceNamed
    \/ UpdateLastUsed
    \/ Tick

SpecEntries == InitEntries /\ [][EntriesNext]_vars

\* The files Load is given: vaults as Save writes them, with the version
\* field as written or overwritten, whole or cut to their first bytes; no
\* file; a vault its owner may not read.
LoadVersions == {0, 1, 2, 257}

CutLens == {0, 3, 4, 20, 32, 47, 48, 49, 4096}

LoadFiles ==
    {[f EXCEPT !.data = Prefix([f.data EXCEPT !.ver = PutUint32(v)], k)] :
        f \in AuthFiles, v \in LoadVersions, k \in CutLens}
    \cup AuthFiles

InitLoad ==
    /\ \/ /\ dir = FALSE
          /\ fs = [p \in Paths |-> NoFile]
       \/ /\ dir = TRUE
          /\ \E f \in {NoFile} \cup LoadFiles :
                fs = [p \in Paths |-> IF p = Path THEN f ELSE NoFile]
    /\ store = NoStore
    /\ pc = "idle"
    /\ sv = NoSave
    /\ ret = NoRet
    /\ clock = 0
    /\ cmd = NoCommand
    /\ InitPkgVars
    /\ InitAuthVars

\* Load, on files of every length and version.
SpecLoad == InitLoad /\ [][LoadCall]_vars

\* AddCommand, on a path with no file or with one.
InitAdd ==
    /\ \/ /\ dir = FALSE
          /\ fs = [p \in Paths |-> NoFile]
       \/ /\ dir = TRUE
          /\ \E f \in {NoFile} \cup AuthFiles :
                fs = [p \in Paths |-> IF p = Path THEN f ELSE NoFile]
    /\ store = NoStore
    /\ pc = "idle"
    /\ sv = NoSave
    /\ ret = NoRet
    /\ clock = 0
    /\ \E name \in AddNames, secret \in AddSecrets :
          cmd = [pc |-> "start", name |-> name, identifier |-> <<120>>,
                 secret |-> secret, code |-> -1, before |-> fs[Path]]
    /\ InitPkgVars
    /\ app = NoStore
    /\ apc = "off"
    /\ attempt = 1
    /\ passphrase = <<>>
    /\ lastErr = <<>>
    /\ out = <<>>
    /\ prompts = 0
    /\ loads = 0
    /\ aret = NotReturned

SpecAdd == InitAdd /\ [][AddCommandNext]_vars

\* ChangePassphraseCommand, on a path with no file or with one, and the
\* program run again after it.
InitChange ==
    /\ \/ /\ dir = FALSE
          /\ fs = [p \in Paths |-> NoFile]
       \/ /\ dir = TRUE
          /\ \E f \in {NoFile} \cup AuthFiles :
                fs = [p \in Paths |-> IF p = Path THEN f ELSE NoFile]
    /\ store = NoStore
    /\ pc = "idle"
    /\ sv = NoSave
    /\ ret = NoRet
    /\ clock = 0
    /\ cmd = [pc |-> "start", typed |-> <<>>, code |-> -1]
    /\ InitPkgVars
    /\ app = NoStore
    /\ apc = "off"
    /\ attempt = 1
    /\ passphrase = <<>>
    /\ lastErr = <<>>
    /\ out = <<>>
    /\ prompts = 0
    /\ loads = 0
    /\ aret = NotReturned

SpecChange == InitChange /\ [][ChangeCommandNext]_vars

\* Create, Load, AddService, UpdateLastUsed, Save and ChangePassphrase on a
\* path with no file or with a vault, crypto/rand never giving the same
\* bytes twice.
InitNonce ==
    /\ \/ /\ dir = FALSE
          /\ fs = [p \in Paths |-> NoFile]
       \/ /\ dir = TRUE
          /\ \E f \in {NoFile} \cup AuthFiles :
                fs = [p \in Paths |-> IF p = Path THEN f ELSE NoFile]
    /\ store = NoStore
    /\ pc = "idle"
    /\ sv = NoSave
    /\ ret = NoRet
    /\ clock = 0
    /\ cmd = NoCommand
    /\ InitPkgVars
    /\ InitAuthVars

SpecNonce == InitNonce /\ [][NonceNext]_vars

\* A Store that Create has returned, its entries added, used and looked up,
\* and the caller writing through what GetService returned.
SpecAlias == InitEntries /\ [][AliasNext]_vars

\* A process that has done nothing yet, on a directory with no vault.
InitIdle ==
    /\ dir = TRUE
    /\ fs = [p \in Paths |-> NoFile]
    /\ store = NoStore
    /\ pc = "idle"
    /\ sv = NoSave
    /\ ret = NoRet
    /\ clock = 0
    /\ cmd = NoCommand
    /\ InitAuthVars

\* Encrypt, Decrypt and DeriveKey on keys, nonces and salts of every size.
InitCrypto == InitIdle /\ InitPkgVars

SpecCrypto == InitCrypto /\ [][CryptoNext]_vars

\* The TUI, started at one of StartTimes.
InitTui ==
    /\ InitIdle
    /\ cr = NoCall
    /\ tui = NoModel
    /\ unix \in StartTimes
    /\ procs = NoProcs
    /\ rand = NoDraws

SpecTui == InitTui /\ [][TuiNext]_vars

\* The entries of the vault the TUI is started on: none; or "Gk" with the
\* identifier "q", and "kg".
KeyServices ==
    {<<>>,
     <<Svc(<<71, 107>>, <<113>>, GoodSecret, 2024),
       Svc(<<107, 103>>, <<>>, OtherSecret, 2024)>>}

\* The TUI on a vault that Load has opened: the Model NewModel returned for
\* its Store, one second before the codes change.
InitKeys ==
    /\ dir = TRUE
    /\ \E ss \in KeyServices :
          LET f == SavedFile([NewStore(<<112>>, 1) EXCEPT !.Services = ss], 1)
              loaded == Load(f, <<112>>).store
          IN  /\ fs = [p \in Paths |-> IF p = Path THEN f ELSE NoFile]
              /\ store = loaded
              /\ tui = ModelOf(loaded.Services, 29)
    /\ pc = "idle"
    /\ sv = NoSave
    /\ ret = Return("Load", <<>>, <<112>>)
    /\ clock = 0
    /\ cmd = NoCommand
    /\ InitAuthVars
    /\ cr = NoCall
    /\ unix = 29
    /\ procs = NoProcs
    /\ rand = NoDraws

SpecKeys == InitKeys /\ [][KeysNext]_vars

\* Two processes on a directory with a vault file, or with none.
InitProcs ==
    /\ dir = TRUE
    /\ \E f \in {NoFile, File(filePerm, PreviousData)} :
          fs = [p \in Paths |-> IF p = Path THEN f ELSE NoFile]
    /\ store = NoStore
    /\ pc = "idle"
    /\ sv = NoSave
    /\ ret = NoRet
    /\ clock = 0
    /\ cmd = NoCommand
    /\ InitAuthVars
    /\ InitPkgVars

SpecProcs == InitProcs /\ [][ProcsNext]_vars

(***************************************************************************)
(* Properties                                                              *)
(***************************************************************************)
\* What the round trip compares of the entries: name, identifier, secret.
Entries(services) ==
    [i \in 1..Len(services) |->
        <<services[i].Name, services[i].Identifier, services[i].Secret>>]

\* The step on which Save, or the Save inside ChangePassphrase, returns.
SaveReturns ==
    pc' = "idle" /\ ret'.op \in {"Save", "ChangePassphrase"} /\ clock' = clock

\* A file Save wrote, whole: its ciphertext opens under the key that sealed it.
SealedVault(f) ==
    /\ Readable(f)
    /\ f.data.len >= headerSize + gcmTagSize
    /\ Uint32(f.data.ver) = currentVersion
    /\ f.data.ct.whole
    /\ f.data.ct.pt.valid

\* C1: after a successful Save, Load of the path with the Store's passphrase
\* succeeds and returns the Store's entries (name, identifier, secret) in
\* their order.
C1_VaultRoundTrip ==
    (pc = "idle" /\ ret.op = "Save" /\ ret.err = <<>>) =>
        LET r == Load(fs[Path], store.passphrase)
        IN  /\ r.err = <<>>
            /\ Entries(r.store.Services) = Entries(store.Services)

\* The step on which Load returns.
LoadReturns == pc = "idle" /\ ret'.op = "Load" /\ clock' = clock

\* C2: a Load leaves the vault file and the temporary file as they are; with
\* a passphrase other than the one the file was saved under it returns an
\* error and no Store, and the passphrase the file was saved under still
\* opens it afterwards.
C2_WrongPassphraseLoad ==
    [][LoadReturns =>
          /\ fs' = fs
          /\ (SealedVault(fs[Path]) /\ ret'.arg # fs[Path].data.ct.key.pass) =>
                /\ ret'.err # <<>>
                /\ Load(fs[Path], ret'.arg).store = NoStore
                /\ store' = store
                /\ Load(fs'[Path], fs[Path].data.ct.key.pass).err = <<>>]_vars

\* C2 witness: a Load of a vault file holding an entry, with a passphrase
\* other than the one it was saved under, has returned its error.
C2_Witness ==
    /\ ret.op = "Load"
    /\ ret.err # <<>>
    /\ SealedVault(fs[Path])
    /\ ret.arg # fs[Path].data.ct.key.pass
    /\ Len(fs[Path].data.ct.pt.services) > 0

\* C3: while a Save runs the path holds the file it held when the call
\* began; when the Save returns, the path holds that same file if it returns
\* an error and the whole new file if it returns none.
C3_SaveAtomic ==
    /\ [](pc # "idle" => fs[Path] = sv.prev)
    /\ [][SaveReturns =>
             IF ret'.err = <<>>
             THEN fs'[Path].exists /\ fs'[Path].data = sv.data
             ELSE fs'[Path] = fs[Path]]_vars

\* C3 witness: a Save failed at the rename, on a path where an earlier Save had put a
\* vault file.
C3_Witness ==
    /\ pc = "idle"
    /\ ret.op = "Save"
    /\ ret.err # <<>>
    /\ ret.err[1] = "failed to rename temp file"
    /\ SealedVault(fs[Path])

\* C4: when a Save returns on a path that held a vault file, or returns no
\* error, a valid vault file is at the path and no temporary file remains.
C4_OneFileNoTmp ==
    [][SaveReturns =>
          /\ ~fs'[TmpPath].exists
          /\ (SealedVault(fs[Path]) \/ ret'.err = <<>>) => SealedVault(fs'[Path])]_vars

\* C5: every Load of an existing file that fails returns one and the same
\* error, the one it returns for the 14 bytes "corrupted data".
C5_UniformLoadError ==
    (ret.op = "Load" /\ ret.err # <<>> /\ fs[Path].exists) =>
        ret.err = LoadData(CorruptedData, ret.arg).err

\* C6: when ChangePassphrase returns no error, Load with the new passphrase
\* succeeds with the Store's entries in their order, and Load with the old
\* passphrase, if it differs, fails.
C6_PassphraseSuperseded ==
    [][(SaveReturns /\ ret'.op = "ChangePassphrase" /\ ret'.err = <<>>) =>
          LET new == Load(fs'[Path], store'.passphrase)
          IN  /\ new.err = <<>>
              /\ Entries(new.store.Services) = Entries(store'.Services)
              /\ sv.old # store'.passphrase => Load(fs'[Path], sv.old).err # <<>>]_vars

\* The lines printed so far with the given format.
Printed(text) == {i \in 1..Len(out) : out[i].text = text}

\* The parts of an error chain.
Parts(err) == {err[i] : i \in 1..Len(err)}

\* The Load errors of a file that is not a vault of this format, or that
\* cannot be read.
FormatOrIOError(err) ==
    /\ err # <<>>
    /\ err[1] \in {"invalid storage file: too short",
                   "unsupported storage version",
                   "failed to read storage file"}

\* C7: the unlock flow calls Load at most 3 times and prompts at most 3
\* times; once 3 Loads have failed it has returned an error and takes no
\* further step.
C7_AtMostThreeAttempts ==
    /\ loads <= 3
    /\ prompts <= 3
    /\ (loads = 3 /\ app = NoStore) =>
          /\ apc = "done"
          /\ aret.done
          /\ aret.err # <<>>
          /\ ~ENABLED AuthNext

\* C7 witness: three Loads failed and the flow returned the failure.
C7_Witness ==
    /\ loads = 3
    /\ app = NoStore
    /\ aret.done
    /\ aret.err[1] = "authentication failed"

\* C8: the flow binds a Store only by returning success; when it has
\* returned success at attempt k, it has prompted k times and called Load k
\* times, the Store bound is the one Load returns for the passphrase of
\* attempt k, and no further step is taken.
C8_SuccessShortCircuits ==
    /\ app # NoStore => (aret.done /\ aret.err = <<>>)
    /\ (aret.done /\ aret.err = <<>>) =>
          /\ attempt \in 1..3
          /\ prompts = attempt
          /\ loads = attempt
          /\ Load(fs[Path], passphrase).err = <<>>
          /\ app = Load(fs[Path], passphrase).store
          /\ ~ENABLED AuthNext

\* C8 witness: the second attempt was the first to succeed.
C8_Witness ==
    /\ aret.done
    /\ aret.err = <<>>
    /\ attempt = 2
    /\ app # NoStore
    /\ lastErr # <<>>

\* C9: each failed attempt has its "Incorrect passphrase" line; no line
\* printed carries the passphrase, and the error returned after the failed
\* attempts carries no part of Load's error.
C9_GenericFailureReport ==
    /\ Cardinality(Printed("Incorrect passphrase (attempt %d/%d)")) = attempt - 1
    /\ \A i \in 1..Len(out) : passphrase \notin Parts(out[i].args)
    /\ (aret.done /\ lastErr # <<>>) => Parts(aret.err) \cap Parts(lastErr) = {}

\* C10: after a Load that failed on the file's format or on reading it, the
\* flow has ended, with no prompt after the first.
C10_NoRetryOnFormatOrIO ==
    FormatOrIOError(lastErr) =>
        /\ apc = "done"
        /\ aret.done
        /\ prompts = 1

\* The number of characters of a string.
Chars(s) == Len(Runes(s))

\* C11: first-run setup runs only on a path with no file and the unlock
\* flow only on a path with one; until Create is called no file is written
\* and no Store bound, and a setup that returns an error before it leaves
\* none; promptNewPassphrase accepts only a passphrase of at least 8
\* characters that the confirmation equals, so a vault file that setup has
\* written is one of a Store with such a passphrase.
C11_FirstRunSetup ==
    /\ apc \in {"newpass", "create"} =>
          /\ ~fs[Path].exists /\ ~fs[TmpPath].exists
          /\ app = NoStore /\ store = NoStore /\ loads = 0
    /\ (apc \in {"prompt", "load"} \/ loads > 0) =>
          /\ fs[Path].exists
          /\ store = NoStore
    /\ (aret.done /\ aret.err # <<>> /\ aret.err[1] = "passphrase setup failed") =>
          /\ ~fs[Path].exists /\ ~fs[TmpPath].exists
          /\ app = NoStore /\ store = NoStore
    /\ \A typed1, typed2 \in NewTypedInputs \cup {EndOfInput} :
          LET r == promptNewPassphrase(typed1, typed2)
          IN  r.err = <<>> =>
                 /\ typed1 # EndOfInput /\ typed2 # EndOfInput
                 /\ r.passphrase = TrimSpace(typed1)
                 /\ TrimSpace(typed2) = TrimSpace(typed1)
    /\ (store # NoStore /\ fs[Path].exists) => Chars(store.passphrase) >= 8

\* C12: when Save, or the Save inside ChangePassphrase, has returned no
\* error, the vault file exists with mode 0600.
C12_OwnerOnlyMode ==
    (pc = "idle" /\ ret.op \in {"Save", "ChangePassphrase"} /\ ret.err = <<>>) =>
        /\ fs[Path].exists
        /\ fs[Path].mode = filePerm

\* C12 witness: a ChangePassphrase on a vault with an entry has returned no
\* error, on a path whose file an earlier Save had written.
C12_Witness ==
    /\ pc = "idle"
    /\ ret.op = "ChangePassphrase"
    /\ ret.err = <<>>
    /\ Len(store.Services) > 0
    /\ fs[Path].mode = filePerm

\* The step on which AddService returns an error.
AddServiceFails ==
    pc = "idle" /\ ret'.op = "AddService" /\ ret'.err # <<>> /\ clock' = clock

\* C13: an AddService that returns an error leaves the Store, its entries
\* among it, and the files as they are; and what a successful Save writes is
\* the encoding of the Store's entries, in which a rejected entry never was.
C13_RejectedAddNoEffect ==
    [][/\ AddServiceFails => (store' = store /\ fs' = fs)
       /\ (SaveReturns /\ ret'.err = <<>>) =>
             /\ fs'[Path].data.ct.whole
             /\ fs'[Path].data.ct.pt = MarshalStorage(store).doc
             /\ store'.Services = store.Services]_vars

\* C13 witness: an AddService was rejected as a duplicate on a Store with
\* one entry, whose vault file holds that one entry.
C13_Witness ==
    /\ ret.op = "AddService"
    /\ ret.err = <<"service already exists">>
    /\ Len(store.Services) = 1
    /\ SealedVault(fs[Path])
    /\ Len(fs[Path].data.ct.pt.services) = 1

\* Names equal ignoring case: the same runes after folding.
SameNameIgnoringCase(s, t) == FoldRunes(s) = FoldRunes(t)

\* C14: in every Store, of Create or of Load, after any calls of AddService,
\* UpdateLastUsed, Save and ChangePassphrase, no two entries have names that
\* are equal ignoring case.
C14_NamesUnique ==
    store # NoStore =>
        \A i, j \in 1..Len(store.Services) :
            i # j => ~SameNameIgnoringCase(store.Services[i].Name,
                                           store.Services[j].Name)

\* C14 witness: Load has returned a Store with two entries, one of them
\* used.
C14_Witness ==
    /\ ret.op = "Load"
    /\ ret.err = <<>>
    /\ Len(store.Services) = 2
    /\ \E i \in 1..2 : store.Services[i].LastUsed # <<>>

\* The characters of a name that the spec excludes: control characters and
\* the path separators.
Excluded(r) == r < 32 \/ r = 127 \/ r = 47 \/ r = 92

\* C15: every entry of the Store has a name of 1 to 50 characters with no
\* control character and no path separator.
C15_StoredNameValid ==
    store # NoStore =>
        \A i \in 1..Len(store.Services) :
            LET rs == Runes(store.Services[i].Name)
            IN  /\ Len(rs) >= 1
                /\ Len(rs) <= 50
                /\ \A k \in 1..Len(rs) : ~Excluded(rs[k])

\* The step on which UpdateLastUsed returns.
UpdateLastUsedReturns ==
    pc = "idle" /\ ret'.op = "UpdateLastUsed" /\ clock' = clock

C17_UpdateLastUsedFrame ==
    [][UpdateLastUsedReturns =>
          LET matches == {i \in 1..Len(store.Services) :
                             SameNameIgnoringCase(store.Services[i].Name, ret'.arg)}
          IN  /\ fs' = fs
              /\ IF matches = {}
                 THEN ret'.err # <<>> /\ store' = store
                 ELSE /\ ret'.err = <<>>
                      /\ \E m \in matches :
                            store' = [store EXCEPT !.Services =
                                         [@ EXCEPT ![m].LastUsed = <<2024 + clock>>]]]_vars

\* C17 witness: UpdateLastUsed("A") has set last_used of the second of two
\* entries, "a", and the first has none.
C17_Witness ==
    /\ ret.op = "UpdateLastUsed"
    /\ ret.err = <<>>
    /\ ret.arg = <<65>>
    /\ Len(store.Services) = 2
    /\ store.Services[2].Name = <<97>>
    /\ store.Services[2].LastUsed = <<2024 + clock>>
    /\ store.Services[1].LastUsed = <<>>

\* A step in which Create returns.
CreateReturns ==
    /\ store = NoStore
    /\ pc = "idle"
    /\ pc' = "idle"
    /\ ret'.op = "Create"
    /\ clock' = clock

\* C18: Create writes no file, and when it returns a Store that Store has
\* no entries, format version 1 and a salt of 16 bytes.  The entry at the
\* vault path changes only in the step in which a Save returns without an
\* error: a path with no file before Create has none until then.
C18_CreateWritesNoFile ==
    [][/\ CreateReturns =>
             /\ fs' = fs
             /\ IF ret'.err = <<>>
                THEN /\ store' # NoStore
                     /\ store'.Services = <<>>
                     /\ store'.Version = 1
                     /\ store'.Salt.len = 16
                ELSE store' = NoStore
       /\ fs'[Path] # fs[Path] => SaveReturns /\ ret'.err = <<>>]_vars

\* C18 witness: Create has returned a Store and there is no file at the
\* vault path, nor a temporary one.
C18_Witness ==
    /\ ret.op = "Create"
    /\ ret.err = <<>>
    /\ store # NoStore
    /\ store.Services = <<>>
    /\ store.Salt.len = 16
    /\ ~fs[Path].exists
    /\ ~fs[TmpPath].exists

\* The length check and the version check of Load refuse data.
RefusedUnread(data) ==
    IF data.len < 48 THEN TRUE ELSE Uint32(data.ver) # 1

\* C19: Load of a file shorter than 48 bytes, or one whose first four bytes
\* are not the version 1, returns an error and no Store, and the error is
\* that of the length check or of the version check: the key was not
\* derived and nothing was decrypted.
C19_LoadRefusesUnread ==
    [][(LoadReturns /\ Readable(fs[Path]) /\ RefusedUnread(fs[Path].data)) =>
          /\ store' = store
          /\ ret'.err # <<>>
          /\ ret'.err[1] = (IF fs[Path].data.len < 48
                            THEN "invalid storage file: too short"
                            ELSE "unsupported storage version")]_vars

\* C19 witness: Load has refused a file of 47 bytes whose version is 1.
C19_Witness ==
    /\ ret.op = "Load"
    /\ fs[Path].data.len = 47
    /\ fs[Path].data.ver = <<1, 0, 0, 0>>
    /\ ret.err = <<"invalid storage file: too short">>
    /\ store = NoStore

\* The vault in file f holds an entry with the name, identifier and secret
\* of the command's flags.
HoldsEntry(f, pw) ==
    LET l == Load(f, pw)
    IN  /\ l.err = <<>>
        /\ \E i \in 1..Len(l.store.Services) :
              /\ l.store.Services[i].Name = cmd.name
              /\ l.store.Services[i].Identifier = cmd.identifier
              /\ l.store.Services[i].Secret = cmd.secret

\* The vault in file f holds an entry with the command's name, ignoring
\* case, under some passphrase.
HoldsName(f) ==
    \E pw \in Passphrases :
        LET l == Load(f, pw)
        IN  /\ l.err = <<>>
            /\ \E i \in 1..Len(l.store.Services) :
                  SameNameIgnoringCase(l.store.Services[i].Name, cmd.name)

\* C20: when AddCommand has returned, its code is 0 or 1.  With 0 the entry
\* was added and the last Save returned no error, and the vault file, read
\* with the passphrase of the Store, holds the entry.  The code is 1 when a
\* required flag is missing, the secret or the name is not valid,
\* Initialize returned an error, the Save returned an error, or the vault
\* held the name already, ignoring case; and in that last case the vault
\* file is the one the command found.
C20_AddCommandExitCode ==
    cmd.pc = "done" =>
        /\ cmd.code \in {0, 1}
        /\ cmd.code = 0 =>
              /\ app # NoStore
              /\ ret = Return("Save", <<>>, <<>>)
              /\ \E i \in 1..Len(app.Services) : app.Services[i].Name = cmd.name
              /\ HoldsEntry(fs[Path], app.passphrase)
        /\ (\/ cmd.name = <<>>
            \/ cmd.secret = <<>>
            \/ ValidateSecret(cmd.secret) # <<>>
            \/ ValidateServiceName(cmd.name) # <<>>
            \/ aret.done /\ aret.err # <<>>
            \/ ret.op = "Save" /\ ret.err # <<>>
            \/ HoldsName(cmd.before)
            \/ Printed("Error: Service '%s' already exists") # {}) => cmd.code = 1
        /\ (HoldsName(cmd.before) \/ Printed("Error: Service '%s' already exists") # {})
              => fs[Path] = cmd.before

\* C21: Decrypt of the ciphertext and the nonce that Encrypt returned, under
\* the key Encrypt was given, returns the plaintext Encrypt was given and no
\* error.  Encrypt returns a ciphertext for every key of 32 bytes, and the
\* ciphertext is not empty: it is 16 bytes longer than the plaintext.
C21_EncryptDecryptRoundTrip ==
    /\ (cr.op = "Encrypt" /\ cr.key.len = 32) =>
          /\ cr.res.err = <<>>
          /\ CtLen(cr.res.ciphertext) > 0
          /\ CtLen(cr.res.ciphertext) = PlainLen(cr.plaintext) + 16
    /\ (/\ cr.op = "Decrypt"
        /\ cr.ciphertext = cr.sealed.res.ciphertext
        /\ cr.key = cr.sealed.key
        /\ cr.nonce = cr.sealed.res.nonce) =>
          /\ cr.res.err = <<>>
          /\ cr.res.plaintext = cr.sealed.plaintext

\* C21 witness: the empty plaintext has been sealed into a ciphertext of 16
\* bytes and Decrypt has returned it.
C21_Witness ==
    /\ cr.op = "Decrypt"
    /\ cr.sealed.plaintext = Text(<<>>)
    /\ CtLen(cr.ciphertext) = 16
    /\ cr.res.err = <<>>
    /\ cr.res.plaintext = Text(<<>>)

\* C22: Decrypt returns an error and no plaintext when the ciphertext, the
\* key or the nonce it is given is not the one of the Encrypt call.
C22_DecryptRejectsOther ==
    (/\ cr.op = "Decrypt"
     /\ \/ cr.ciphertext # cr.sealed.res.ciphertext
        \/ cr.key # cr.sealed.key
        \/ cr.nonce # cr.sealed.res.nonce) =>
       /\ cr.res.err # <<>>
       /\ cr.res.plaintext = NotJSON

\* C22 witness: Decrypt has refused the ciphertext under the key that sealed
\* it and another nonce of 12 bytes.
C22_Witness ==
    /\ cr.op = "Decrypt"
    /\ cr.ciphertext = cr.sealed.res.ciphertext
    /\ cr.key = cr.sealed.key
    /\ cr.nonce # cr.sealed.res.nonce
    /\ cr.nonce.len = 12
    /\ cr.res.err = <<"decryption failed (wrong key or tampered data)",
                      "cipher: message authentication failed">>

\* C23: Encrypt and Decrypt return an error and nothing else for a key that
\* is not 32 bytes long, Decrypt for a nonce that is not 12 bytes long,
\* DeriveKey for a salt shorter than 16 bytes; DeriveKey with a salt of 16
\* bytes or more returns a key of 32 bytes and no error.
C23_SizesChecked ==
    /\ (cr.op = "Encrypt" /\ cr.key.len # 32) =>
          /\ cr.res.err # <<>>
          /\ cr.res.ciphertext = Garbage
          /\ cr.res.nonce = NoBytes
    /\ (cr.op = "Decrypt" /\ (cr.key.len # 32 \/ cr.nonce.len # 12)) =>
          /\ cr.res.err # <<>>
          /\ cr.res.err[1] \in {"invalid key size", "invalid nonce size"}
          /\ cr.res.plaintext = NotJSON
    /\ cr.op = "DeriveKey" =>
          IF cr.salt.len < 16
          THEN cr.res.err # <<>> /\ cr.res.key = NoKey
          ELSE cr.res.err = <<>> /\ cr.res.key.len = 32

\* C23 witness: DeriveKey has returned a key of 32 bytes for the empty
\* passphrase and a salt of 17 bytes.
C23_Witness ==
    /\ cr.op = "DeriveKey"
    /\ cr.passphrase = <<>>
    /\ cr.salt.len = 17
    /\ cr.res.err = <<>>
    /\ cr.res.key.len = 32

\* C24: at every instant calculateRemainingSeconds is 30 - (unix time mod
\* 30), a number from 1 to 30.  The remainingTime of a Model is from 1 to 30
\* after NewModel and after every message.  A tick message takes one from
\* it; when that leaves none the codes are those of the instant and the
\* counter is the time left at that instant.
C24_RemainingInRange ==
    [][/\ calculateRemainingSeconds(unix') = 30 - (unix' % 30)
       /\ calculateRemainingSeconds(unix') \in 1..30
       /\ tui' # NoModel => tui'.remainingTime \in 1..30
       /\ (tui # NoModel /\ tui' # tui /\ tui'.last = "tickMsg") =>
             IF tui.remainingTime > 1
             THEN /\ tui'.remainingTime = tui.remainingTime - 1
                  /\ tui'.totpCodes = tui.totpCodes
             ELSE /\ tui'.remainingTime = 30 - (unix % 30)
                  /\ tui'.totpCodes = CodesAt(tui.services, tui.totpCodes, unix)]_vars

\* Six decimal digits.
SixDigits(code) ==
    /\ Len(code) = 6
    /\ \A i \in 1..6 : code[i] >= 48 /\ code[i] <= 57

\* C25: GenerateCode of a secret of the Model at the instant returns six
\* decimal digits and no error when the secret is Base32 of 10 bytes or
\* more, and the error of an invalid secret and no code otherwise.  Once the
\* codes of a Model were generated, totpCodes holds "ERROR" for each entry
\* with an invalid secret and six digits for each other entry.
C25_CodesSixDigitsOrError ==
    tui # NoModel =>
        \A i \in 1..Len(tui.services) :
            LET service == tui.services[i]
                g == GenerateCode(service.Secret, unix)
            IN  /\ IF ValidateSecret(service.Secret) = <<>>
                   THEN g.err = <<>> /\ SixDigits(g.code)
                   ELSE g.err # <<>> /\ g.err[1] = "invalid secret" /\ g.code = <<>>
                /\ tui.last # "NewModel" =>
                      /\ service.Name \in DOMAIN tui.totpCodes
                      /\ IF ValidateSecret(service.Secret) = <<>>
                         THEN SixDigits(tui.totpCodes[service.Name])
                         ELSE tui.totpCodes[service.Name] = ErrorCode

\* C25 witness: the codes of three entries were generated; the second, whose
\* secret is "ABC", has "ERROR", the others have six digits, and one of the
\* codes begins with 0.
C25_Witness ==
    /\ tui # NoModel
    /\ tui.last # "NewModel"
    /\ Len(tui.services) = 3
    /\ tui.totpCodes[<<98>>] = ErrorCode
    /\ SixDigits(tui.totpCodes[<<97>>])
    /\ SixDigits(tui.totpCodes[<<122>>])
    /\ 48 \in {tui.totpCodes[<<97>>][1], tui.totpCodes[<<122>>][1]}

\* C26: with two processes in Save on one path, the file at the path is at
\* every moment the vault file found there or the whole fileData of one of
\* the two Saves.
C26_LastWriterWins ==
    fs[Path].exists =>
        fs[Path].data \in {PreviousData} \cup {ProcData(p) : p \in Procs}

\* C27: when ChangePassphrase returns an error the Store is the one
\* ChangePassphrase was called on, if the error comes before the temporary
\* file is opened; if it comes later, while the file is written or renamed,
\* the Store holds the passphrase it held when ChangePassphrase was called.
C27_FailedChangeKeepsStore ==
    [][/\ (pc = "idle" /\ SaveReturns /\ ret'.op = "ChangePassphrase"
              /\ ret'.err # <<>>) => store' = store
       /\ (pc # "idle" /\ SaveReturns /\ ret'.op = "ChangePassphrase"
              /\ ret'.err # <<>>) => store'.passphrase = sv.old]_vars

\* C28: when the program is run again after ChangePassphraseCommand has
\* succeeded with the new passphrase typed as P, and the user types the same
\* P at the prompt, the passphrase given to Load is P as it was kept at the
\* change, and Initialize, unless a read of the prompt fails, returns no
\* error with a Store bound.
C28_LaterUnlockSucceeds ==
    /\ (cmd.pc = "again" /\ apc = "load") => passphrase = cmd.typed
    /\ (/\ cmd.pc = "again"
        /\ aret.done
        /\ (aret.err = <<>> \/ aret.err[1] # "passphrase input failed")) =>
           (aret.err = <<>> /\ app # NoStore)

\* C29: whenever a Save of the CLI, at first-run setup or at the change of
\* the passphrase, has written the vault file, the passphrase the file is
\* sealed under has at least 8 characters.
C29_WrittenUnderEightChars ==
    (pc = "idle" /\ ret.op \in {"Save", "ChangePassphrase"} /\ ret.err = <<>>) =>
        Chars(store.passphrase) >= 8

\* C30: once Initialize has returned, a Store is bound to the App exactly
\* when the error returned is nil; the errors are those of the prompt, of
\* the three failed attempts and of the first-run setup, and with each of
\* them no Store is bound.
C30_StoreIffNoError ==
    /\ aret.done => ((app # NoStore) <=> (aret.err = <<>>))
    /\ (aret.done /\ aret.err # <<>>) =>
          /\ aret.err[1] \in {"passphrase input failed", "authentication failed",
                              "passphrase setup failed", "failed to create storage",
                              "failed to save storage"}
          /\ app = NoStore
    /\ (aret.done /\ aret.err # <<>> /\ aret.err[1] = "authentication failed") =>
          loads = maxPassphraseAttempts

\* Initialize has returned the error of a Save that failed after Create had
\* made a Store: the Store is not bound.
C30_Witness ==
    /\ aret.done
    /\ aret.err # <<>>
    /\ aret.err[1] = "failed to save storage"
    /\ store # NoStore
    /\ app = NoStore

\* C31: a Save that succeeds has written the nonce that Encrypt read from
\* crypto/rand during the call and sealed the ciphertext under it; that
\* nonce is not the one the file held before the call and none that an
\* earlier Save has written, and the Store holds it afterwards.
C31_SaveNonceFresh ==
    [][(SaveReturns /\ ret'.err = <<>>) =>
          /\ rand.drawn > 0
          /\ sv.nonce = RandomBytes(MaxRandom + rand.drawn, nonceSize)
          /\ fs'[Path].data.nonce = sv.nonce
          /\ fs'[Path].data.ct.nonce = sv.nonce
          /\ sv.prev.exists => fs'[Path].data.nonce # sv.prev.data.nonce
          /\ fs'[Path].data.nonce \notin rand.written
          /\ fs'[Path].data.nonce # store.Nonce
          /\ store'.Nonce = fs'[Path].data.nonce]_vars

\* A Store that was loaded from a vault has saved twice: the file holds the
\* second nonce, the Store too, and both Saves are noted.
C31_Witness ==
    /\ pc = "idle"
    /\ ret.op = "Save"
    /\ ret.err = <<>>
    /\ Cardinality(rand.written) = 2
    /\ store.Nonce = fs[Path].data.nonce
    /\ store.Nonce \in rand.written

\* C32: the salt of a Store has 16 bytes; a step changes it only when it
\* begins a ChangePassphrase or is a Load, which returns another Store with
\* the salt read from the file; AddService, UpdateLastUsed and every step
\* of Save keep it, and a Save that succeeds has written it to the file.
C32_SaltKept ==
    [][/\ store' # NoStore => store'.Salt.len = saltLength
       /\ (store # NoStore /\ store' # NoStore /\ store'.Salt # store.Salt) =>
             \/ LoadReturns /\ ret'.err = <<>>
             \/ /\ pc = "idle"
                /\ sv'.op = "ChangePassphrase" \/ ret'.op = "ChangePassphrase"
       /\ (LoadReturns /\ ret'.err = <<>>) => store'.Salt = fs[Path].data.salt
       /\ (pc = "idle" /\ ret'.op \in {"AddService", "UpdateLastUsed"}) =>
             store'.Salt = store.Salt
       /\ (pc = "idle" /\ sv'.op = "Save") => store'.Salt = store.Salt
       /\ pc # "idle" => store'.Salt = store.Salt
       /\ (SaveReturns /\ ret'.err = <<>>) =>
             /\ fs'[Path].data.salt = store'.Salt
             /\ fs'[Path].data.ct.key.salt = store'.Salt]_vars

\* ChangePassphrase has succeeded on a Store with an entry: the Store has a
\* salt that no file held before, of 16 bytes, and the file holds it.
C32_Witness ==
    /\ pc = "idle"
    /\ ret.op = "ChangePassphrase"
    /\ ret.err = <<>>
    /\ store.Salt.id > MaxRandom
    /\ store.Salt.len = saltLength
    /\ fs[Path].data.salt = store.Salt
    /\ Len(store.Services) = 1

\* C33: AddCommand with no --name, no --secret or a secret that
\* ValidateSecret refuses never reaches Initialize: it returns 1, nothing is
\* read from the user, no Load is tried, and no step creates the directory
\* or changes the entries at the path and at the temporary path.
C33_BadFlagsTouchNothing ==
    [][(cmd.name = <<>> \/ cmd.secret = <<>> \/ ValidateSecret(cmd.secret) # <<>>) =>
          /\ cmd'.pc \in {"start", "done"}
          /\ cmd'.pc = "done" => cmd'.code = 1
          /\ apc' = "off"
          /\ prompts' = 0
          /\ loads' = 0
          /\ app' = NoStore
          /\ store' = NoStore
          /\ dir' = dir
          /\ fs' = fs
          /\ fs'[Path] = cmd.before
          /\ \A i \in 1..Len(out') : out'[i].text \notin
                {"Passphrase: ", "Enter new passphrase: ", "Confirm passphrase: "}]_vars

\* AddCommand has returned 1 for a name with the secret "ABC": Initialize
\* has not begun and the file is the one that was there.
C33_Witness ==
    /\ cmd.pc = "done"
    /\ cmd.code = 1
    /\ cmd.name = <<97>>
    /\ cmd.secret = <<65, 66, 67>>
    /\ apc = "off"
    /\ prompts = 0
    /\ fs[Path] = cmd.before
    /\ fs[Path].exists

\* C34: the entries of a Store change only in a step that is an AddService
\* or an UpdateLastUsed that returned no error, whatever the caller does
\* with the entry GetService returned; after every step each entry passes
\* Validate and no two names are equal ignoring case.
C34_EntriesOnlyThroughStore ==
    [][/\ store'.Services # store.Services =>
             (ret'.op \in {"AddService", "UpdateLastUsed"} /\ ret'.err = <<>>)
       /\ \A i \in 1..Len(store'.Services) : Validate(store'.Services[i]) = <<>>
       /\ \A i, j \in 1..Len(store'.Services) :
             i # j => ~EqualFold(store'.Services[i].Name, store'.Services[j].Name)]_vars

\* C35: a step of space or enter on an entry that has a code, in either
\* mode, sets the last use of the entry at the cursor in the filtered list
\* to the instant of the step and of no other, sets the status, and has
\* called Save after that: the vault file is left as it was, by a Save that
\* failed, or holds the entries with that last use; every other step of the
\* TUI (the other keys, ticks, refreshes, sizes) leaves the Store's
\* entries and the files as they are.
C35_CopySetsLastUsed ==
    [][(tui # NoModel /\ tui' # NoModel) =>
          IF /\ tui'.last = "KeySpace, KeyEnter"
             /\ tui.cursor < Len(tui.filteredIndices)
             /\ tui.services[tui.filteredIndices[tui.cursor + 1] + 1].Name
                   \in DOMAIN tui.totpCodes
          THEN /\ LET i == tui.filteredIndices[tui.cursor + 1] + 1
                  IN  store'.Services =
                         [store.Services EXCEPT ![i].LastUsed = <<Now>>]
               /\ tui'.copyStatus # NoStatus
               /\ tui'.services = store'.Services
               /\ \/ fs'[Path] = fs[Path] /\ store'.Nonce = store.Nonce
                  \/ Load(fs'[Path], store'.passphrase).store.Services = store'.Services
          ELSE /\ store'.Services = store.Services
               /\ tui'.services = tui.services
               /\ fs' = fs]_vars

\* C35: in search mode with the query "kG", which leaves the second entry
\* alone in the list, the second entry has been used, the first has not, and
\* the file Save wrote holds that.
C35_Witness ==
    /\ tui # NoModel
    /\ tui.searchMode
    /\ tui.searchQuery = <<107, 71>>
    /\ tui.filteredIndices = <<1>>
    /\ tui.last = "KeySpace, KeyEnter"
    /\ Len(store.Services) = 2
    /\ store.Services[1].LastUsed = <<>>
    /\ store.Services[2].LastUsed = <<Now>>
    /\ Load(fs[Path], store.passphrase).store.Services = store.Services

\* C36: whatever messages Update has handled, the cursor is 0 when the
\* filtered list is empty and otherwise an index into it, and every element
\* of the filtered list is an index into the services, both counted from 0.
C36_CursorInList ==
    tui # NoModel =>
        /\ IF Len(tui.filteredIndices) = 0
           THEN tui.cursor = 0
           ELSE tui.cursor >= 0 /\ tui.cursor < Len(tui.filteredIndices)
        /\ \A n \in 1..Len(tui.filteredIndices) :
              /\ tui.filteredIndices[n] >= 0
              /\ tui.filteredIndices[n] < Len(tui.services)

\* C36: the cursor had gone down to the second of two entries, and a query
\* that no entry matches has emptied the list and put the cursor back.
C36_Witness ==
    /\ tui # NoModel
    /\ Len(tui.services) = 2
    /\ tui.searchQuery # <<>>
    /\ tui.filteredIndices = <<>>
    /\ tui.viewportOffset = 1
    /\ tui.cursor = 0

\* C37: whatever messages Update has handled, the filtered list is the
\* increasing list of the indices of the services whose name, a space and
\* identifier, in lower case, hold the bytes of the query in lower case in
\* their order; with an empty query that is every index.
C37_FilterFollowsQuery ==
    tui # NoModel =>
        LET query == ToLower(tui.searchQuery)
            text(i) == ToLower(tui.services[i].Name \o <<32>> \o tui.services[i].Identifier)
            InOrder(i) ==
                \E at \in [1..Len(query) -> 1..Len(text(i))] :
                    /\ \A a, b \in 1..Len(query) : a < b => at[a] < at[b]
                    /\ \A a \in 1..Len(query) : text(i)[at[a]] = query[a]
        IN  /\ \A n \in 1..Len(tui.filteredIndices) :
                  tui.filteredIndices[n] \in 0..(Len(tui.services) - 1)
            /\ \A n \in 1..(Len(tui.filteredIndices) - 1) :
                  tui.filteredIndices[n] < tui.filteredIndices[n + 1]
            /\ \A i \in 1..Len(tui.services) :
                  InOrder(i) <=> (\E n \in 1..Len(tui.filteredIndices) :
                                     tui.filteredIndices[n] = i - 1)

\* C38: whatever key and size messages Update has handled, the cursor is
\* inside the window the View draws: viewportOffset <= cursor and
\* cursor < viewportOffset + maxVisibleItems, where maxVisibleItems is
\* (height - 9) / 3 and at least 1.
C38_CursorVisible ==
    tui # NoModel =>
        LET visible == IF GoQuo(tui.height - 9, 3) < 1 THEN 1
                       ELSE GoQuo(tui.height - 9, 3)
        IN  /\ tui.viewportOffset <= tui.cursor
            /\ tui.cursor < tui.viewportOffset + visible

\* The indices, from 0, of the services whose name, a space and identifier
\* hold the bytes of query in their order, all in lower case.
InOrderIndices(services, query) ==
    {i - 1 : i \in {n \in 1..Len(services) :
        LET text == ToLower(services[n].Name \o <<32>> \o services[n].Identifier)
            q == ToLower(query)
        IN  \E at \in [1..Len(q) -> 1..Len(text)] :
               /\ \A a, b \in 1..Len(q) : a < b => at[a] < at[b]
               /\ \A a \in 1..Len(q) : text[at[a]] = q[a]}}

\* The keys that take the Model of this state to the Model of the next.
KeysOfStep == {msg \in KeyMsgs : tui' = handleKeyPress(tui, msg)}

\* The runes among them; a step that ends with another message has none.
RunesOfStep ==
    IF tui'.last \in {"KeyMsg", "tea.Quit"}
    THEN {msg \in KeyMsgs : msg.Type = "KeyRunes" /\ tui' = handleKeyPress(tui, msg)}
    ELSE {}

\* What holds of every step of the TUI for the search mode: it is entered
\* by the slash alone, in normal mode, and left by Esc alone, which keeps
\* the query and the filtered list and does not quit; a rune in search mode
\* is appended to the query, the list is filtered by the new query, the mode
\* stays and tea.Quit is not returned.
SearchModeStep ==
    /\ (~tui.searchMode /\ tui'.searchMode) =>
          KeysOfStep = {[Type |-> "KeyRunes", Runes |-> <<47>>]}
    /\ (tui.searchMode /\ ~tui'.searchMode) =>
          /\ KeysOfStep = {[Type |-> "KeyEsc", Runes |-> <<>>]}
          /\ tui'.searchQuery = tui.searchQuery
          /\ tui'.filteredIndices = tui.filteredIndices
          /\ tui'.last # "tea.Quit"
    /\ tui.searchMode =>
          \A msg \in RunesOfStep :
                  /\ tui'.searchQuery = tui.searchQuery \o msg.Runes
                  /\ tui'.filteredIndices =
                        Ascending(InOrderIndices(tui.services, tui'.searchQuery))
                  /\ tui'.searchMode
                  /\ tui'.last # "tea.Quit"

=============================================================================
